---- MODULE Spec2Model ----
\* A model of the peer-to-peer networking core of prozchain (src/src/network).
\* Each component is modelled by its own group of variables and its own
\* specification (SpecCodec, SpecRecent, SpecTopo, SpecConn, SpecService); in
\* each specification the variables of the other components keep their
\* initial value.
EXTENDS Integers, Sequences, FiniteSets, TLC

VARIABLES
    \* ---- message codec (network/message.rs)
    overflow_checks,   \* build profile: TRUE = integer overflow panics (debug)
    message,           \* the Message value in hand, or NoMessage
    protocol,          \* the Protocol handed to Message::new, or "none"
    bytes,             \* the byte string in hand
    from_serialize,    \* TRUE when bytes is Message::serialize(message)
    result,            \* the outcome of the last Message::deserialize(bytes)
    \* ---- the clock read by Instant::now()
    now,
    \* ---- RecentMessages (network/message.rs)
    rm_capacity,       \* RecentMessages.capacity
    rm_seen,           \* RecentMessages.seen: fingerprint -> Instant
    rm_last,           \* the last call: [op, hash, ret, at]
    rm_before,         \* RecentMessages.seen as it was before the last call
    rm_inserted,       \* fingerprint -> time of the latest insert(fingerprint)
    rm_evicted,        \* fingerprints evicted for capacity since their insert
    \* ---- TopologyManager (network/topology.rs)
    inbound_connections, \* PeerId -> SocketAddr
    outbound_connections, \* PeerId -> SocketAddr
    tm_ip_connections, \* TopologyManager.ip_connections: IpAddr -> count
    \* ---- ConnectionManager (network/connection.rs)
    connections,       \* PeerId -> [address, last_activity]
    connecting,        \* SocketAddr -> Instant
    handshaking,       \* SocketAddr -> Instant
    cm_ip_connections, \* ConnectionManager.ip_connections: IpAddr -> count
    cm_call,           \* the establish_outbound_connection in progress, which
                       \* holds the manager (&mut self) until it returns
    cm_ret,            \* what the last call on the manager returned
    cm_issued,         \* peer ids generate_temporary_peer_id has handed out
    \* ---- SybilProtection (network/security.rs)
    connection_counts, \* IpAddr -> count
    ip_address_groups, \* IpSubnet -> count
    asn_connection_counts, \* ASN -> count
    \* ---- NetworkService (network/service.rs)
    status,            \* NetworkStatus
    peers,             \* PeerId -> PeerInfo
    peers_read_held,   \* TRUE while stop iterates over peers.read()
    requests,          \* the commands queued on the request channel
    task,              \* caller -> where it stands in trigger_peer_discovery
    stop_call,         \* where the caller of stop stands
    \* ---- ProtocolNegotiator (network/protocol_version.rs)
    local_capabilities, \* [supported_protocols, features] of this node
    min_compatible_version, \* ProtocolId -> ProtocolVersion
    remote_capabilities, \* what the peer advertised in the last call
    negotiated,        \* what negotiate returned, or NoNegotiation
    negotiate_ret,     \* what negotiate_protocols returned
    \* ---- BlockPropagator (network/block_propagation.rs)
    mempool,           \* TransactionHash -> Transaction
    seen_blocks,       \* set of BlockHash
    compact_blocks_enabled,
    mempool_prevalence_threshold, \* f32, in tenths
    announced,         \* the last block announced and its compact announcement
    reconstructed,     \* the outcome of the last handle_compact_block
    \* ---- DoSProtection (network/security.rs)
    current_tokens,    \* ResourceType -> tokens left in its RateLimiter
    last_refill,       \* ResourceType -> time of its RateLimiter's last refill
    penalty_scores,    \* PeerId -> u32
    recent_violators,  \* PeerId -> [value, expiry]
    whitelist,         \* set of IpAddr
    peer_to_addr,      \* PeerId -> IpAddr
    banned_addresses,  \* IpAddr -> expiry (ExpiringSet.entries)
    disconnect_tx,     \* the (peer, reason) requests sent to the connection manager
    rate_call,         \* the last check_rate_limit call and its outcome
    \* ---- NetworkService: the tasks start spawns (network/service.rs)
    background,        \* task -> "none", "running" or "exited"
    shutdown_rx,       \* task -> a shutdown signal waits in its receiver
    \* ---- NetworkService: start, the message handler, the health checker
    start_call,        \* the position and the result of the start call
    enable_upnp,       \* config.enable_upnp
    metrics,           \* the build has the "metrics" feature
    handling,          \* the command the message handler is handling
    responses,         \* the response channel
    handled,           \* the command handled last, with its replies
    api_calls,         \* send_message calls made so far
    \* ---- BroadcastManager (network/propagation.rs)
    active_peers,      \* the shared map of connections, as the set of its keys
    default_policy,    \* config.default_policy
    protocol_policies, \* config.protocol_policies: Protocol -> BroadcastPolicy
    peer_capabilities, \* PeerId -> PeerCapabilities
    recently_broadcast, \* RecentMessages.seen of the manager
    broadcast_call,    \* the broadcast_message call in progress
    broadcast_last,    \* the last broadcast_message call that returned
    broadcast_history, \* Message -> time its fingerprint was last recorded
    \* ---- PeerDiscovery (network/discovery.rs)
    bootstrap_nodes,   \* config.bootstrap_nodes, as the addresses they resolve to
    dns_seeds,         \* config.dns_seeds
    known_peers,       \* PeerId -> LocalPeerRecord
    attempted_peers,   \* set of SocketAddr
    banned_peers,      \* set of SocketAddr
    last_dns_lookup,   \* Option<Instant>
    discovery_last,    \* the last call on the PeerDiscovery
    observed,          \* PeerId -> the first time and the best source add_peer was given
    dns_queried_at,    \* the time of the last query of the DNS seeds
    \* ---- one RateLimiter shared by threads (network/security.rs)
    bucket_tokens,     \* RateLimiter.current_tokens
    bucket_last_refill, \* RateLimiter.last_refill
    limiter_call,      \* thread -> where it stands in try_consume
    tokens_after_refill, \* current_tokens as the last refill left it
    consumed_since_refill, \* the amounts consumed since the last refill
    credited,          \* the tokens the refills have added so far
    last_refill_high,  \* the latest time stored in last_refill so far
    \* ---- inbound handshakes
    handshake_task,    \* endpoint -> the state of the handshake task spawned for it
    inbound_last,      \* the last call of handle_inbound_connection
    \* ---- the running service over time
    connected_since,   \* PeerId -> the time connect_to_peer stored the connection
    maintained_at,     \* the time of the last maintenance tick
    \* ---- the ban duration (network/security.rs)
    ban_score,         \* the penalty score of one peer
    ban_duration,      \* the last result of calculate_ban_duration
    \* ---- subnet buckets (network/security.rs)
    subnet_connected,  \* IpAddr -> the connections recorded with it
    subnet_last,       \* the last admission asked of SybilProtection
    \* ---- GossipManager (propagation.rs:232-392)
    gossip_factors,    \* GossipManager.gossip_factors (fanout, rounds)
    gossip_cache_size, \* LruCache.max_size of the message cache
    gossip_active_peers, \* the peers of GossipManager.active_peers
    gossip_known_messages, \* GossipManager.known_messages
    gossip_message_cache, \* GossipManager.message_cache.items
    peer_message_tracking, \* GossipManager.peer_message_tracking
    gossip_last,       \* the last process_incoming_gossip call (ghost)
    \* ---- submissions to BlockPropagator (block_propagation.rs:131-178)
    blocks_submitted,  \* the blocks propagate_block was called with (ghost)
    submission_last,   \* the last propagate_block call (ghost)
    \* ---- RateLimiter on one thread (security.rs:250-329)
    refill_tokens,     \* RateLimiter.current_tokens
    refill_last,       \* RateLimiter.last_refill, in ms
    refill_clock,      \* unix_timestamp_ms()
    refill_result      \* the last try_consume call (ghost)

codecVars == <<overflow_checks, message, protocol, bytes, from_serialize, result>>
recentVars == <<rm_capacity, rm_seen, rm_last, rm_before, rm_inserted, rm_evicted>>

topoVars == <<inbound_connections, outbound_connections, tm_ip_connections>>

connVars == <<connections, connecting, handshaking, cm_ip_connections,
              cm_call, cm_ret, cm_issued>>

sybilVars == <<connection_counts, ip_address_groups, asn_connection_counts>>

serviceVars == <<status, peers, peers_read_held, requests, task, stop_call>>

negVars == <<local_capabilities, min_compatible_version, remote_capabilities,
             negotiated, negotiate_ret>>

blockVars == <<mempool, seen_blocks, compact_blocks_enabled,
               mempool_prevalence_threshold, announced, reconstructed>>

dosVars == <<current_tokens, last_refill, penalty_scores, recent_violators,
             whitelist, peer_to_addr, banned_addresses, disconnect_tx,
             rate_call>>

taskVars == <<background, shutdown_rx>>

lifeVars == <<start_call, enable_upnp, metrics, handling, responses, handled,
              api_calls>>

bcastVars == <<active_peers, default_policy, protocol_policies,
    peer_capabilities, recently_broadcast, broadcast_call, broadcast_last,
    broadcast_history>>

discVars == <<bootstrap_nodes, dns_seeds, known_peers, attempted_peers,
    banned_peers, last_dns_lookup, discovery_last, observed,
    dns_queried_at>>

limVars == <<bucket_tokens, bucket_last_refill, limiter_call,
    tokens_after_refill, consumed_since_refill, credited, last_refill_high>>

hsVars == <<handshake_task, inbound_last>>

runVars == <<connected_since, maintained_at>>

banVars == <<ban_score, ban_duration>>

subnetVars == <<subnet_connected, subnet_last>>

gossipVars == <<gossip_factors, gossip_cache_size, gossip_active_peers,
    gossip_known_messages, gossip_message_cache, peer_message_tracking,
    gossip_last>>

seenVars == <<blocks_submitted, submission_last>>

refillVars == <<refill_tokens, refill_last, refill_clock, refill_result>>

vars == <<codecVars, now, recentVars, topoVars, connVars, sybilVars,
         serviceVars, negVars, blockVars, dosVars, taskVars, lifeVars,
         bcastVars, discVars, limVars, hsVars, runVars, banVars,
         subnetVars, gossipVars, seenVars, refillVars>>

\* what the actions of one component leave alone
notCodec == <<now, recentVars, topoVars, connVars, sybilVars, serviceVars,
    negVars, blockVars, dosVars, taskVars, lifeVars, bcastVars, discVars,
    limVars, hsVars, runVars, banVars, subnetVars, gossipVars, seenVars,
    refillVars>>
notRecent == <<codecVars, topoVars, connVars, sybilVars, serviceVars,
    negVars, blockVars, dosVars, taskVars, lifeVars, bcastVars, discVars,
    limVars, hsVars, runVars, banVars, subnetVars, gossipVars, seenVars,
    refillVars>>
notTopo == <<codecVars, now, recentVars, connVars, sybilVars, serviceVars,
    negVars, blockVars, dosVars, taskVars, lifeVars, bcastVars, discVars,
    limVars, hsVars, runVars, banVars, subnetVars, gossipVars, seenVars,
    refillVars>>
notConn == <<codecVars, recentVars, topoVars, sybilVars, serviceVars,
    negVars, blockVars, dosVars, taskVars, lifeVars, bcastVars, discVars,
    limVars, hsVars, runVars, banVars, subnetVars, gossipVars, seenVars,
    refillVars>>
notService == <<codecVars, now, recentVars, topoVars, negVars, blockVars,
    dosVars, lifeVars, bcastVars, discVars, limVars, hsVars, runVars,
    banVars, subnetVars, gossipVars, seenVars, refillVars>>
notNeg == <<codecVars, now, recentVars, topoVars, connVars, sybilVars,
    serviceVars, blockVars, dosVars, taskVars, lifeVars, bcastVars,
    discVars, limVars, hsVars, runVars, banVars, subnetVars, gossipVars,
    seenVars, refillVars>>
notBlock == <<codecVars, now, recentVars, topoVars, connVars, sybilVars,
    serviceVars, negVars, dosVars, taskVars, lifeVars, bcastVars, discVars,
    limVars, hsVars, runVars, banVars, subnetVars, gossipVars, seenVars,
    refillVars>>
notDos == <<codecVars, recentVars, topoVars, connVars, sybilVars,
    serviceVars, negVars, blockVars, taskVars, lifeVars, bcastVars,
    discVars, limVars, hsVars, runVars, banVars, subnetVars, gossipVars,
    seenVars, refillVars>>
notLife == <<codecVars, now, recentVars, topoVars, negVars, blockVars,
    dosVars, bcastVars, discVars, limVars, hsVars, runVars, banVars,
    subnetVars, gossipVars, seenVars, refillVars>>
notBroadcast == <<codecVars, recentVars, topoVars, connVars, sybilVars,
    serviceVars, negVars, blockVars, dosVars, taskVars, lifeVars, discVars,
    limVars, hsVars, runVars, banVars, subnetVars, gossipVars, seenVars,
    refillVars>>
notDiscovery == <<codecVars, recentVars, topoVars, connVars, sybilVars,
    serviceVars, negVars, blockVars, dosVars, taskVars, lifeVars,
    bcastVars, limVars, hsVars, runVars, banVars, subnetVars, gossipVars,
    seenVars, refillVars>>
notLimiter == <<codecVars, recentVars, topoVars, connVars, sybilVars,
    serviceVars, negVars, blockVars, dosVars, taskVars, lifeVars,
    bcastVars, discVars, hsVars, runVars, banVars, subnetVars, gossipVars,
    seenVars, refillVars>>
notHandshake == <<codecVars, recentVars, topoVars, sybilVars, serviceVars,
    negVars, blockVars, dosVars, taskVars, lifeVars, bcastVars, discVars,
    limVars, runVars, banVars, subnetVars, gossipVars, seenVars, refillVars>>
notRunning == <<codecVars, recentVars, topoVars, negVars, blockVars,
    dosVars, bcastVars, discVars, limVars, banVars, subnetVars, gossipVars,
    seenVars, refillVars>>
notBan == <<codecVars, now, recentVars, topoVars, connVars, sybilVars,
    serviceVars, negVars, blockVars, dosVars, taskVars, lifeVars,
    bcastVars, discVars, limVars, hsVars, runVars, subnetVars, gossipVars,
    seenVars, refillVars>>
notSubnet == <<codecVars, now, recentVars, topoVars, connVars, serviceVars,
    negVars, blockVars, dosVars, taskVars, lifeVars, bcastVars, discVars,
    limVars, hsVars, runVars, banVars, gossipVars, seenVars, refillVars>>
notGossip == <<codecVars, now, recentVars, topoVars, connVars, sybilVars,
    serviceVars, negVars, blockVars, dosVars, taskVars, lifeVars,
    bcastVars, discVars, limVars, hsVars, runVars, banVars, subnetVars,
    seenVars, refillVars>>
notSeen == <<codecVars, now, recentVars, topoVars, connVars, sybilVars,
    serviceVars, negVars, dosVars, taskVars, lifeVars, bcastVars, discVars,
    limVars, hsVars, runVars, banVars, subnetVars, gossipVars, refillVars>>
notRefill == <<codecVars, now, recentVars, topoVars, connVars, sybilVars,
    serviceVars, negVars, blockVars, dosVars, taskVars, lifeVars,
    bcastVars, discVars, limVars, hsVars, runVars, banVars, subnetVars,
    gossipVars, seenVars>>

\* ------------------------------------------------------------------------
\* The clock: Instant::now(), in ticks from the start of the process
\* ------------------------------------------------------------------------
MaxTime == 4

InitClock == now = 0

\* ------------------------------------------------------------------------
\* Small helpers for maps (HashMap<K, V> as a function on the set of its keys)
\* ------------------------------------------------------------------------
EmptyMap == <<>>

Keys(m) == DOMAIN m

MapPut(m, k, v) == [x \in DOMAIN m \cup {k} |-> IF x = k THEN v ELSE m[x]]

MapRemove(m, k) == [x \in DOMAIN m \ {k} |-> m[x]]

MapRetain(m, keep) == [x \in keep \cap DOMAIN m |-> m[x]]

\* map.get(k).unwrap_or(d)
MapGetOr(m, k, d) == IF k \in DOMAIN m THEN m[k] ELSE d

RECURSIVE SumOver(_, _)
SumOver(m, ks) ==
    IF ks = {} THEN 0
    ELSE LET k == CHOOSE x \in ks : TRUE
         IN  m[k] + SumOver(m, ks \ {k})

\* the sum of the values of a map of counters
MapSum(m) == SumOver(m, DOMAIN m)

\* ------------------------------------------------------------------------
\* Fixed-width integers.  TLC's integers are 32-bit signed, so a u32 is kept
\* as two 16-bit limbs [hi, lo]; u16 and u8 fit as they are.
\* ------------------------------------------------------------------------
U8Max == 255
U16Max == 65535

U32 == [hi : 0..U16Max, lo : 0..U16Max]

\* `n as u32` for a small natural n (a length of a byte string of the model)
U32Of(n) == [hi |-> (n \div 65536) % 65536, lo |-> n % 65536]

\* u16::to_le_bytes, u32::to_le_bytes
u16_to_le_bytes(x) == <<x % 256, x \div 256>>
u32_to_le_bytes(x) == u16_to_le_bytes(x.lo) \o u16_to_le_bytes(x.hi)

\* u16::from_le_bytes, u32::from_le_bytes
u16_from_le_bytes(b0, b1) == b0 + 256 * b1
u32_from_le_bytes(b0, b1, b2, b3) ==
    [hi |-> u16_from_le_bytes(b2, b3), lo |-> u16_from_le_bytes(b0, b1)]

\* `12 + length` in u32 arithmetic wraps (or panics) exactly when this holds
U32AddOverflows(k, x) == x.hi = U16Max /\ x.lo + k > U16Max

\* `bytes.len() != 12 + length as usize` for a byte string of the model, whose
\* length is far below 2^16; usize is 64 bits wide, so the sum does not wrap
LenDiffers(n, k, x) == ~(x.hi = 0 /\ x.lo + k = n)

\* ------------------------------------------------------------------------
\* Protocol (message.rs:9-73)
\* ------------------------------------------------------------------------
Protocols == <<"Discovery", "BlockExchange", "Transaction", "Consensus",
               "StateSync", "Control", "Identity">>

Protocol_all == {Protocols[i] : i \in 1..Len(Protocols)}

\* `protocol as u16`: the discriminant of a fieldless enum without explicit
\* values is the position of the variant in the declaration, from 0
Protocol_as_u16(p) == (CHOOSE i \in 1..Len(Protocols) : Protocols[i] = p) - 1

Protocol_as_u8(p) ==
    CASE p = "Discovery"     -> 1
      [] p = "BlockExchange" -> 2
      [] p = "Transaction"   -> 3
      [] p = "Consensus"     -> 4
      [] p = "StateSync"     -> 5
      [] p = "Control"       -> 6
      [] p = "Identity"      -> 7

\* Option<Protocol>: "None" or the protocol
Protocol_from_u8(v) ==
    CASE v = 1 -> "Discovery"
      [] v = 2 -> "BlockExchange"
      [] v = 3 -> "Transaction"
      [] v = 4 -> "Consensus"
      [] v = 5 -> "StateSync"
      [] v = 6 -> "Control"
      [] v = 7 -> "Identity"
      [] OTHER -> "None"

\* ------------------------------------------------------------------------
\* Message (message.rs:75-156)
\* ------------------------------------------------------------------------
NoMessage == [none |-> TRUE]

MessageHeader(protocol_id, message_type, length, version, flags) ==
    [protocol_id |-> protocol_id, message_type |-> message_type,
     length |-> length, version |-> version, flags |-> flags]

Message_new(p, message_type, payload) ==
    [header  |-> MessageHeader(Protocol_as_u16(p), message_type,
                               U32Of(Len(payload)), 1, 0),
     payload |-> payload]

\* Message::serialize never fails: it returns Ok(buffer)
Message_serialize(m) ==
    u16_to_le_bytes(m.header.protocol_id)
        \o u16_to_le_bytes(m.header.message_type)
        \o u32_to_le_bytes(m.header.length)
        \o <<m.header.version>>
        \o <<m.header.flags>>
        \o m.payload

Ok(m)  == [kind |-> "Ok", msg |-> m]
Err(e) == [kind |-> "Err", msg |-> e]
Panic  == [kind |-> "Panic", msg |-> "attempt to add with overflow"]
NoResult == [kind |-> "none", msg |-> "none"]

\* Message::deserialize.  The error message of the length check adds 12 to
\* the u32 length field: with overflow checks on that addition panics, without
\* them it wraps and the error is returned.
Message_deserialize(b, checks) ==
    IF Len(b) < 12
    THEN Err("Message too short")
    ELSE LET protocol_id  == u16_from_le_bytes(b[1], b[2])
             message_type == u16_from_le_bytes(b[3], b[4])
             length       == u32_from_le_bytes(b[5], b[6], b[7], b[8])
             version      == b[9]
             flags        == b[10]
         IN  IF LenDiffers(Len(b), 12, length)
             THEN IF U32AddOverflows(12, length) /\ checks
                  THEN Panic
                  ELSE Err("Invalid message length")
             ELSE Ok([header  |-> MessageHeader(protocol_id, message_type,
                                               length, version, flags),
                      payload |-> SubSeq(b, 13, Len(b))])

\* ------------------------------------------------------------------------
\* Inputs of the codec
\* ------------------------------------------------------------------------
MaxPayloadLen == 3

PayloadBytes == {0, U8Max}

Payloads == UNION {[1..n -> PayloadBytes] : n \in 0..MaxPayloadLen}

MessageTypes == {1, 513}

\* protocol identifiers met on the wire: the known ones, and unknown ones
WireProtocolIds == 0..8 \cup {U16Max}

\* length fields met on the wire, next to the true payload length
WireLengths == {U32Of(1), [hi |-> 1, lo |-> 0], [hi |-> U16Max, lo |-> U16Max - 11],
                [hi |-> U16Max, lo |-> U16Max]}

\* the 12-byte header of the wire format, as Message::deserialize reads it
WireHeader(protocol_id, message_type, length, version, flags) ==
    u16_to_le_bytes(protocol_id) \o u16_to_le_bytes(message_type)
        \o u32_to_le_bytes(length) \o <<version, flags, 0, 0>>

\* nothing in hand: no message, no bytes, no result
CodecIdle == message = NoMessage /\ bytes = <<>> /\ result = NoResult

InitCodec ==
    /\ overflow_checks \in BOOLEAN
    /\ message = NoMessage
    /\ protocol = "none"
    /\ bytes = <<>>
    /\ from_serialize = FALSE
    /\ result = NoResult

\* Message::new(protocol, message_type, payload)
NewMessage ==
    \E p \in Protocol_all, t \in MessageTypes, pl \in Payloads :
        /\ CodecIdle
        /\ message' = Message_new(p, t, pl)
        /\ protocol' = p
        /\ bytes' = <<>>
        /\ from_serialize' = FALSE
        /\ result' = NoResult
        /\ UNCHANGED <<overflow_checks, notCodec>>

\* a Message built field by field (the fields are public), with length set to
\* the payload's length
BuildMessage ==
    \E id \in {0, 1, 7, 258}, t \in MessageTypes, v \in {1, U8Max},
       f \in {0, 128}, pl \in Payloads :
        /\ CodecIdle
        /\ message' = [header |-> MessageHeader(id, t, U32Of(Len(pl)), v, f),
                       payload |-> pl]
        /\ protocol' = "none"
        /\ bytes' = <<>>
        /\ from_serialize' = FALSE
        /\ result' = NoResult
        /\ UNCHANGED <<overflow_checks, notCodec>>

\* message.serialize()
Serialize ==
    /\ message # NoMessage
    /\ ~from_serialize
    /\ bytes' = Message_serialize(message)
    /\ from_serialize' = TRUE
    /\ result' = NoResult
    /\ UNCHANGED <<overflow_checks, message, protocol, notCodec>>

\* a byte string arrives from a peer: a wire header and a payload, whole or cut
ReceiveBytes ==
    \E id \in WireProtocolIds, pl \in Payloads, cut \in {0, 2, 11, 12, 15} :
      \E l \in WireLengths \cup {U32Of(Len(pl))} :
        /\ CodecIdle
        /\ bytes' = SubSeq(WireHeader(id, 1, l, 1, 0) \o pl, 1,
                           IF cut < 12 + Len(pl) THEN cut ELSE 12 + Len(pl))
        /\ message' = NoMessage
        /\ protocol' = "none"
        /\ from_serialize' = FALSE
        /\ result' = NoResult
        /\ UNCHANGED <<overflow_checks, notCodec>>

\* Message::deserialize(&bytes)
Deserialize ==
    /\ result = NoResult
    /\ (from_serialize \/ message = NoMessage)
    /\ result' = Message_deserialize(bytes, overflow_checks)
    /\ UNCHANGED <<overflow_checks, message, protocol, bytes, from_serialize, notCodec>>

\* the values in hand are dropped
Drop ==
    /\ ~CodecIdle
    /\ message' = NoMessage
    /\ protocol' = "none"
    /\ bytes' = <<>>
    /\ from_serialize' = FALSE
    /\ result' = NoResult
    /\ UNCHANGED <<overflow_checks, notCodec>>

NextCodec ==
    \/ NewMessage
    \/ BuildMessage
    \/ Serialize
    \/ ReceiveBytes
    \/ Deserialize
    \/ Drop

\* ---- claims about the codec, checked under SpecCodec

\* the header's length field and protocol identifier as Message::deserialize
\* reads them from a byte string of at least 12 bytes
WireLength(b) == u32_from_le_bytes(b[5], b[6], b[7], b[8])
WireProtocolId(b) == u16_from_le_bytes(b[1], b[2])

KnownProtocolId(id) == id <= U8Max /\ Protocol_from_u8(id) # "None"

\* C1: framing round trip: deserializing the serialization of a message m
\* succeeds and returns the header fields and the payload of m.
FramingRoundTrip ==
    (from_serialize /\ result # NoResult)
        => (result.kind = "Ok" /\ result.msg = message)

\* C2: serialize emits 12 header bytes, then the payload: 12 + payload.len()
\* bytes, protocol_id, message_type and length little-endian, then version and
\* flags, and the payload from byte offset 12, where deserialize reads it.
SerializeLayout ==
    from_serialize =>
        /\ Len(bytes) = 12 + Len(message.payload)
        /\ SubSeq(bytes, 1, 2) = u16_to_le_bytes(message.header.protocol_id)
        /\ SubSeq(bytes, 3, 4) = u16_to_le_bytes(message.header.message_type)
        /\ SubSeq(bytes, 5, 8) = u32_to_le_bytes(message.header.length)
        /\ bytes[9] = message.header.version
        /\ bytes[10] = message.header.flags
        /\ SubSeq(bytes, 13, Len(bytes)) = message.payload

\* C3: deserialize returns an error, and neither panics nor succeeds, for a
\* byte string whose length is not 12 + its length field (shorter than 12
\* included) and for a byte string whose protocol_id is not a known one.
DeserializeRejects ==
    (/\ result # NoResult
     /\ \/ Len(bytes) < 12
        \/ LenDiffers(Len(bytes), 12, WireLength(bytes))
        \/ ~KnownProtocolId(WireProtocolId(bytes)))
        => result.kind = "Err"

\* C4: a message built by Message::new(P, ..) carries P's wire identifier,
\* the value as_u8(P) returns and from_u8 maps back to P.
NewCarriesWireId ==
    protocol # "none" =>
        /\ message.header.protocol_id = Protocol_as_u8(protocol)
        /\ KnownProtocolId(message.header.protocol_id)
        /\ Protocol_from_u8(message.header.protocol_id) = protocol

\* ------------------------------------------------------------------------
\* RecentMessages (message.rs:158-213)
\* ------------------------------------------------------------------------
MaxCapacity == 2

\* RecentMessages.ttl, in ticks of the clock
MessageTtl == 2

MessageHashes == {"h1", "h2", "h3"}

\* cleanup: retain the entries younger than ttl
RecentMessages_cleanup(seen, t) ==
    MapRetain(seen, {h \in DOMAIN seen : t - seen[h] < MessageTtl})

\* the entries min_by_key may return: those with the least timestamp (the
\* iteration order of the HashMap decides between equal timestamps)
RecentMessages_oldest(seen) ==
    {h \in DOMAIN seen : \A g \in DOMAIN seen : seen[h] <= seen[g]}

\* insert: the maps that can result from insert(hash) at time t
RecentMessages_insert(seen, capacity, hash, t) ==
    IF Cardinality(DOMAIN seen) >= capacity
    THEN LET cleaned == RecentMessages_cleanup(seen, t)
         IN  IF Cardinality(DOMAIN cleaned) >= capacity /\ DOMAIN cleaned # {}
             THEN {MapPut(MapRemove(cleaned, oldest), hash, t) :
                       oldest \in RecentMessages_oldest(cleaned)}
             ELSE {MapPut(cleaned, hash, t)}
    ELSE {MapPut(seen, hash, t)}

\* the entries of a map that have not reached the ttl at time t
Unexpired(seen, t) == {h \in DOMAIN seen : t - seen[h] < MessageTtl}

\* RecentMessages::new(capacity, ttl)
InitRecent ==
    /\ rm_capacity \in 0..MaxCapacity
    /\ rm_seen = EmptyMap
    /\ rm_last = [op |-> "new", hash |-> "none", ret |-> FALSE, at |-> 0]
    /\ rm_before = EmptyMap
    /\ rm_inserted = EmptyMap
    /\ rm_evicted = {}

\* recent.insert(hash)
RecentInsert ==
    \E hash \in MessageHashes :
      \E after \in RecentMessages_insert(rm_seen, rm_capacity, hash, now) :
        /\ rm_seen' = after
        /\ rm_last' = [op |-> "insert", hash |-> hash, ret |-> FALSE, at |-> now]
        /\ rm_before' = rm_seen
        /\ rm_inserted' = MapPut(rm_inserted, hash, now)
        /\ rm_evicted' = (rm_evicted \cup (Unexpired(rm_seen, now) \ DOMAIN after))
                             \ {hash}
        /\ UNCHANGED <<rm_capacity, now, notRecent>>

\* recent.contains(&hash): cleanup, then contains_key
RecentContains ==
    \E hash \in MessageHashes :
        LET cleaned == RecentMessages_cleanup(rm_seen, now)
        IN  /\ rm_seen' = cleaned
            /\ rm_last' = [op |-> "contains", hash |-> hash,
                           ret |-> hash \in DOMAIN cleaned, at |-> now]
            /\ rm_before' = rm_seen
            /\ UNCHANGED <<rm_capacity, rm_inserted, rm_evicted, now, notRecent>>

\* time passes
RecentTick ==
    /\ now < MaxTime
    /\ now' = now + 1
    /\ UNCHANGED <<recentVars, notRecent>>

NextRecent ==
    \/ RecentInsert
    \/ RecentContains
    \/ RecentTick

\* ---- claims about RecentMessages, checked under SpecRecent

\* C9: after insert(h), contains(h) is true until the ttl has elapsed since
\* that insert (h not having been evicted to make room); an insert(h) while
\* h is present is a no-op: it changes neither h's recorded time nor any
\* other live entry, at capacity too; and once the ttl has elapsed since h
\* was inserted, contains(h) is false.  (Stated for a capacity of at least 1:
\* what a capacity of 0 does is the matter of C10.)
DedupIdempotence ==
  rm_capacity >= 1 =>
    /\ (/\ rm_last.op = "contains"
        /\ rm_last.hash \in DOMAIN rm_inserted
        /\ rm_last.hash \notin rm_evicted
        /\ rm_last.at - rm_inserted[rm_last.hash] < MessageTtl) => rm_last.ret
    /\ (/\ rm_last.op = "insert"
        /\ rm_last.hash \in Unexpired(rm_before, rm_last.at))
           => \A g \in Unexpired(rm_before, rm_last.at) :
                  g \in DOMAIN rm_seen /\ rm_seen[g] = rm_before[g]
    /\ (/\ rm_last.op = "contains"
        /\ rm_last.hash \in DOMAIN rm_inserted
        /\ rm_last.at - rm_inserted[rm_last.hash] >= MessageTtl) => ~rm_last.ret

\* C10: the number of stored fingerprints never exceeds the capacity; an
\* insert that finds the set full with no expired entry evicts an entry with
\* the oldest timestamp.
BoundedByCapacity ==
    /\ Cardinality(DOMAIN rm_seen) <= rm_capacity
    /\ (/\ rm_last.op = "insert"
        /\ DOMAIN rm_before # {}
        /\ Cardinality(DOMAIN rm_before) >= rm_capacity
        /\ Unexpired(rm_before, rm_last.at) = DOMAIN rm_before)
           => \E o \in RecentMessages_oldest(rm_before) :
                  DOMAIN rm_seen = (DOMAIN rm_before \ {o}) \cup {rm_last.hash}

\* ------------------------------------------------------------------------
\* Addresses and peers
\* ------------------------------------------------------------------------
Ipv4Addr(a, b, c, d) == [family |-> "V4", octets |-> <<a, b, c, d>>]

SocketAddr(ip, port) == [ip |-> ip, port |-> port]

\* two hosts of 10.0.0.0/24 and one of 10.0.1.0/24
IpA == Ipv4Addr(10, 0, 0, 1)
IpB == Ipv4Addr(10, 0, 0, 2)
IpC == Ipv4Addr(10, 0, 1, 1)

IpAddrs == {IpA, IpB, IpC}

Port == 30333

AddrA == SocketAddr(IpA, Port)
AddrA2 == SocketAddr(IpA, Port + 1)
AddrB == SocketAddr(IpB, Port)
AddrC == SocketAddr(IpC, Port)

\* usize::saturating_sub
saturating_sub(x, y) == IF x >= y THEN x - y ELSE 0

\* *map.entry(k).or_insert(0) += 1
CounterIncrement(m, k) == MapPut(m, k, MapGetOr(m, k, 0) + 1)

\* if let Some(count) = map.get_mut(k) { *count = count.saturating_sub(1);
\*     if *count == 0 { map.remove(k); } }
CounterDecrementRemove(m, k) ==
    IF k \in DOMAIN m
    THEN IF saturating_sub(m[k], 1) = 0
         THEN MapRemove(m, k)
         ELSE MapPut(m, k, saturating_sub(m[k], 1))
    ELSE m

\* ------------------------------------------------------------------------
\* TopologyManager (topology.rs:42-122)
\* ------------------------------------------------------------------------
TopoPeers == {"p1", "p2"}

TopoAddrs == {AddrA, AddrA2, AddrB}

\* the registrations of one address the model follows
MaxRegistrations == 3

TopologyManager_register_inbound(peer_id, addr) ==
    /\ inbound_connections' = MapPut(inbound_connections, peer_id, addr)
    /\ tm_ip_connections' = CounterIncrement(tm_ip_connections, addr.ip)
    /\ UNCHANGED outbound_connections

TopologyManager_register_outbound(peer_id, addr) ==
    /\ outbound_connections' = MapPut(outbound_connections, peer_id, addr)
    /\ tm_ip_connections' = CounterIncrement(tm_ip_connections, addr.ip)
    /\ UNCHANGED inbound_connections

TopologyManager_remove_connection(peer_id) ==
    IF peer_id \in DOMAIN inbound_connections
    THEN /\ inbound_connections' = MapRemove(inbound_connections, peer_id)
         /\ tm_ip_connections' =
                CounterDecrementRemove(tm_ip_connections,
                                       inbound_connections[peer_id].ip)
         /\ UNCHANGED outbound_connections
    ELSE IF peer_id \in DOMAIN outbound_connections
    THEN /\ outbound_connections' = MapRemove(outbound_connections, peer_id)
         /\ tm_ip_connections' =
                CounterDecrementRemove(tm_ip_connections,
                                       outbound_connections[peer_id].ip)
         /\ UNCHANGED inbound_connections
    ELSE UNCHANGED topoVars

\* TopologyManager::new
InitTopo ==
    /\ inbound_connections = EmptyMap
    /\ outbound_connections = EmptyMap
    /\ tm_ip_connections = EmptyMap

RegisterInbound ==
    \E peer_id \in TopoPeers, addr \in TopoAddrs :
        /\ MapGetOr(tm_ip_connections, addr.ip, 0) < MaxRegistrations
        /\ TopologyManager_register_inbound(peer_id, addr)
        /\ UNCHANGED notTopo

RegisterOutbound ==
    \E peer_id \in TopoPeers, addr \in TopoAddrs :
        /\ MapGetOr(tm_ip_connections, addr.ip, 0) < MaxRegistrations
        /\ TopologyManager_register_outbound(peer_id, addr)
        /\ UNCHANGED notTopo

RemoveConnection ==
    \E peer_id \in TopoPeers :
        /\ TopologyManager_remove_connection(peer_id)
        /\ UNCHANGED notTopo

NextTopo ==
    \/ RegisterInbound
    \/ RegisterOutbound
    \/ RemoveConnection

\* ---- claims about TopologyManager, checked under SpecTopo

\* C6: every tracked peer_id is in exactly one of inbound_connections and
\* outbound_connections, never in both.
ExactlyOneDirection ==
    \A peer_id \in DOMAIN inbound_connections \cup DOMAIN outbound_connections :
        ~(peer_id \in DOMAIN inbound_connections
            /\ peer_id \in DOMAIN outbound_connections)

\* the counter integrity of TopologyManager: the per-IP counters add up to
\* the number of inbound plus outbound entries
TopologyCounterIntegrity ==
    /\ MapSum(tm_ip_connections) =
           Cardinality(DOMAIN inbound_connections)
               + Cardinality(DOMAIN outbound_connections)
    /\ \A ip \in DOMAIN tm_ip_connections : tm_ip_connections[ip] >= 0

\* ------------------------------------------------------------------------
\* ConnectionManager (connection.rs:76-345)
\* ------------------------------------------------------------------------
\* ConnectionLimits, scaled down from ConnectionLimits::default()
MaxInboundConnections == 2
MaxOutboundConnections == 2
MaxConnectionsPerIp == 2
HandshakeTimeout == 1
IdleTimeout == 2

ConnAddrs == {AddrA, AddrA2, AddrB}

\* generate_temporary_peer_id: 32 random bytes, a peer id not seen before
TemporaryPeerId(issued) == <<"tmp", issued + 1>>

CallIdle == [pc |-> "idle"]

NoReturn == [kind |-> "none"]

\* the peer ids a caller can name: those handed out so far, and a stranger
KnownPeerIds == {<<"tmp", n>> : n \in 0..cm_issued}

\* handle_inbound_connection(stream, addr); start_inbound_handshake spawns a
\* task that only logs the outcome of the handshake
ConnectionManager_handle_inbound_connection(addr) ==
    /\ cm_call = CallIdle
    /\ UNCHANGED <<connections, connecting, cm_ip_connections, cm_call, cm_issued>>
    /\ IF Cardinality(DOMAIN connections) >= MaxInboundConnections
       THEN /\ cm_ret' = Err("Too many connections")
            /\ UNCHANGED handshaking
       ELSE IF MapGetOr(cm_ip_connections, addr.ip, 0) >= MaxConnectionsPerIp
       THEN /\ cm_ret' = Err("Too many connections from this IP")
            /\ UNCHANGED handshaking
       ELSE IF addr \in DOMAIN connecting \/ addr \in DOMAIN handshaking
       THEN /\ cm_ret' = Err("Already connecting to this address")
            /\ UNCHANGED handshaking
       ELSE /\ handshaking' = MapPut(handshaking, addr, now)
            /\ cm_ret' = Ok(addr)

\* establish_outbound_connection(addr), up to the dial: the admission checks
\* and the entry in the connecting list
ConnectionManager_establish_begin(addr, caller) ==
    /\ cm_call = CallIdle
    /\ UNCHANGED <<connections, handshaking, cm_ip_connections, cm_issued>>
    /\ IF Cardinality(DOMAIN connections) >= MaxOutboundConnections
       THEN /\ cm_ret' = Err("Too many outbound connections")
            /\ UNCHANGED <<connecting, cm_call>>
       ELSE IF MapGetOr(cm_ip_connections, addr.ip, 0) >= MaxConnectionsPerIp
       THEN /\ cm_ret' = Err("Too many connections to this IP")
            /\ UNCHANGED <<connecting, cm_call>>
       ELSE IF addr \in DOMAIN connecting
       THEN /\ cm_ret' = Err("Already connecting to this address")
            /\ UNCHANGED <<connecting, cm_call>>
       ELSE /\ connecting' = MapPut(connecting, addr, now)
            /\ cm_call' = [pc |-> "dial", addr |-> addr, caller |-> caller]
            /\ cm_ret' = NoReturn

\* the dial, timeout(handshake_timeout, TcpStream::connect(addr)): it
\* connects, fails or times out
ConnectionManager_establish_dial(outcome) ==
    /\ cm_call.pc = "dial"
    /\ UNCHANGED <<connections, handshaking, cm_ip_connections, cm_issued>>
    /\ IF outcome = "connected"
       THEN /\ cm_call' = [cm_call EXCEPT !.pc = "handshake"]
            /\ UNCHANGED <<connecting, cm_ret>>
       ELSE /\ connecting' = MapRemove(connecting, cm_call.addr)
            /\ cm_call' = CallIdle
            /\ cm_ret' = Err(IF outcome = "failed" THEN "Connection failed"
                                                  ELSE "Connection timed out")

\* perform_outbound_handshake (it returns Ok with a fresh peer id), and the
\* rest of establish_outbound_connection: the connection is returned to the
\* caller and is not stored in connections
ConnectionManager_establish_finish ==
    /\ cm_call.pc = "handshake"
    /\ connecting' = MapRemove(connecting, cm_call.addr)
    /\ cm_ip_connections' = CounterIncrement(cm_ip_connections, cm_call.addr.ip)
    /\ cm_issued' = cm_issued + 1
    /\ cm_ret' = Ok([peer_id |-> TemporaryPeerId(cm_issued),
                     address |-> cm_call.addr])
    /\ cm_call' = CallIdle
    /\ UNCHANGED <<connections, handshaking>>

\* the effect of disconnect(peer_id, reason) on connections and ip_connections
ConnectionManager_disconnected(conns, ips, peer_id) ==
    IF peer_id \in DOMAIN conns
    THEN [connections |-> MapRemove(conns, peer_id),
          ip_connections |-> CounterDecrementRemove(ips, conns[peer_id].address.ip)]
    ELSE [connections |-> conns, ip_connections |-> ips]

\* disconnect(peer_id, reason)
ConnectionManager_disconnect(peer_id, reason) ==
    LET after == ConnectionManager_disconnected(connections, cm_ip_connections,
                                                peer_id)
    IN  /\ cm_call = CallIdle
        /\ connections' = after.connections
        /\ cm_ip_connections' = after.ip_connections
        /\ cm_ret' = NoReturn
        /\ UNCHANGED <<connecting, handshaking, cm_call, cm_issued>>

RECURSIVE DisconnectAll(_, _, _)
DisconnectAll(conns, ips, peer_ids) ==
    IF peer_ids = {}
    THEN [connections |-> conns, ip_connections |-> ips]
    ELSE LET peer_id == CHOOSE x \in peer_ids : TRUE
             after == ConnectionManager_disconnected(conns, ips, peer_id)
         IN  DisconnectAll(after.connections, after.ip_connections,
                           peer_ids \ {peer_id})

\* clean_up_stale_connections
ConnectionManager_clean_up_stale_connections ==
    LET stale_peers == {id \in DOMAIN connections :
                           now - connections[id].last_activity > IdleTimeout}
        after == DisconnectAll(connections, cm_ip_connections, stale_peers)
    IN  /\ cm_call = CallIdle
        /\ handshaking' = MapRetain(handshaking,
               {addr \in DOMAIN handshaking :
                    ~(now - handshaking[addr] > HandshakeTimeout)})
        /\ connections' = after.connections
        /\ cm_ip_connections' = after.ip_connections
        /\ cm_ret' = NoReturn
        /\ UNCHANGED <<connecting, cm_call, cm_issued>>

\* ConnectionManager::new
InitConn ==
    /\ connections = EmptyMap
    /\ connecting = EmptyMap
    /\ handshaking = EmptyMap
    /\ cm_ip_connections = EmptyMap
    /\ cm_call = CallIdle
    /\ cm_ret = NoReturn
    /\ cm_issued = 0

HandleInbound ==
    \E addr \in ConnAddrs :
        /\ ConnectionManager_handle_inbound_connection(addr)
        /\ UNCHANGED <<now, notConn>>

EstablishBegin ==
    \E addr \in ConnAddrs :
        /\ ConnectionManager_establish_begin(addr, "caller")
        /\ UNCHANGED <<now, notConn>>

EstablishDial ==
    \E outcome \in {"connected", "failed", "timed out"} :
        /\ ConnectionManager_establish_dial(outcome)
        /\ UNCHANGED <<now, notConn>>

EstablishFinish ==
    /\ ConnectionManager_establish_finish
    /\ UNCHANGED <<now, notConn>>

Disconnect ==
    \E peer_id \in KnownPeerIds, reason \in {"Normal", "Timeout", "PeerBanned"} :
        /\ ConnectionManager_disconnect(peer_id, reason)
        /\ UNCHANGED <<now, notConn>>

CleanUpStale ==
    /\ ConnectionManager_clean_up_stale_connections
    /\ UNCHANGED <<now, notConn>>

ConnTick ==
    /\ now < MaxTime
    /\ now' = now + 1
    /\ UNCHANGED <<connVars, notConn>>

NextConn ==
    \/ HandleInbound
    \/ EstablishBegin
    \/ EstablishDial
    \/ EstablishFinish
    \/ Disconnect
    \/ CleanUpStale
    \/ ConnTick

\* ---- claims about ConnectionManager, checked under SpecConn

\* C5: counter integrity: in ConnectionManager the per-IP counters add up to
\* the number of entries of connections, in TopologyManager to the number of
\* inbound plus outbound entries, and no counter is negative.
CounterIntegrity ==
    /\ cm_call = CallIdle =>
           MapSum(cm_ip_connections) = Cardinality(DOMAIN connections)
    /\ \A ip \in DOMAIN cm_ip_connections : cm_ip_connections[ip] >= 0
    /\ TopologyCounterIntegrity

\* ------------------------------------------------------------------------
\* SybilProtection (security.rs:66-248)
\* ------------------------------------------------------------------------
\* SybilProtection::new(8, 2, 10, 20, LimitPerSubnet) in NetworkService::new;
\* the caps per subnet and per ASN are scaled down
AddressRestrictionLevel == "LimitPerSubnet"

MaxInboundPerIp == 2
MaxInboundPerSubnet == 1
MaxInboundPerAsn == 3

ExampleAsn == 64496

\* IpAsnLookup::get_asn_for_ip: Option<u32>, the same ASN for every address
IpAsnLookup_get_asn_for_ip(ip) == [some |-> TRUE, asn |-> ExampleAsn]

\* get_subnet_for_ip: the /24 of an IPv4 address has its last octet cleared;
\* the "/48" of an IPv6 address keeps all the octets of the address
get_subnet_for_ip(ip) ==
    IF ip.family = "V4"
    THEN [family |-> "V4",
          base |-> <<ip.octets[1], ip.octets[2], ip.octets[3], 0>>,
          prefix_len |-> 24]
    ELSE [family |-> "V6", base |-> ip.octets, prefix_len |-> 48]

SubnetAllowed(ip) ==
    MapGetOr(ip_address_groups, get_subnet_for_ip(ip), 0) < MaxInboundPerSubnet

\* is_connection_allowed(addr)
SybilProtection_is_connection_allowed(addr) ==
    LET ip == addr.ip
        asn == IpAsnLookup_get_asn_for_ip(ip)
    IN  CASE AddressRestrictionLevel = "None" -> TRUE
          [] AddressRestrictionLevel = "LimitPerIp" ->
                 MapGetOr(connection_counts, ip, 0) < MaxInboundPerIp
          [] AddressRestrictionLevel = "LimitPerSubnet" -> SubnetAllowed(ip)
          [] AddressRestrictionLevel = "LimitPerAsn" ->
                 IF asn.some
                 THEN MapGetOr(asn_connection_counts, asn.asn, 0) < MaxInboundPerAsn
                 ELSE SubnetAllowed(ip)

\* if let Some(count) = map.get_mut(key) { *count = count.saturating_sub(1) }
CounterDecrement(m, k) ==
    IF k \in DOMAIN m THEN [m EXCEPT ![k] = saturating_sub(@, 1)] ELSE m

\* record_connection(addr)
SybilProtection_record_connection(addr) ==
    LET ip == addr.ip
        asn == IpAsnLookup_get_asn_for_ip(ip)
    IN  /\ connection_counts' = CounterIncrement(connection_counts, ip)
        /\ ip_address_groups' =
               CounterIncrement(ip_address_groups, get_subnet_for_ip(ip))
        /\ asn_connection_counts' =
               IF asn.some
               THEN CounterIncrement(asn_connection_counts, asn.asn)
               ELSE asn_connection_counts

\* record_disconnection(addr)
SybilProtection_record_disconnection(addr) ==
    LET ip == addr.ip
        asn == IpAsnLookup_get_asn_for_ip(ip)
    IN  /\ connection_counts' = CounterDecrement(connection_counts, ip)
        /\ ip_address_groups' =
               CounterDecrement(ip_address_groups, get_subnet_for_ip(ip))
        /\ asn_connection_counts' =
               IF asn.some
               THEN CounterDecrement(asn_connection_counts, asn.asn)
               ELSE asn_connection_counts

\* SybilProtection::new
InitSybil ==
    /\ connection_counts = EmptyMap
    /\ ip_address_groups = EmptyMap
    /\ asn_connection_counts = EmptyMap

\* ------------------------------------------------------------------------
\* NetworkService (service.rs): bootstrap_peer_connections, connect_to_peer
\* and stop, on a service that NetworkService::new has built
\* ------------------------------------------------------------------------
\* config.max_peers and the capacity of the request channel, scaled down
MaxPeers == 4
ChannelCapacity == 3
\* the number of peers one PeerDiscovery::bootstrap returns at most
MaxDiscovered == 1

DiscoveredAddrs == {AddrA, AddrB}

\* the concurrent callers of trigger_peer_discovery
Callers == {"c1", "c2"}

PeerInfo(id, address) == [id |-> id, address |-> address]

\* discovery.rs generate_temporary_peer_id(addr): a hash of the address
DiscoveredPeerId(addr) == <<"addr", addr>>

PeerDiscovered(info) == [kind |-> "PeerDiscovered", peer |-> info]
DisconnectCommand(peer_id, reason) ==
    [kind |-> "Disconnect", peer_id |-> peer_id, reason |-> reason]

NoPeer == [none |-> TRUE]
NewCall == [pc |-> "new", left |-> 0, peer |-> NoPeer, connection |-> NoPeer]

\* the tasks of the service: the accept loop of the listener, the maintenance
\* task, the message handler and the health checker
Tasks == {"listener", "maintenance", "handler", "health"}

\* the tasks that hold a receiver of shutdown_signal
Subscribers == {"listener", "maintenance", "handler"}

\* _message_tx.send(cmd).await: it waits while the channel is full, and
\* returns Err, the command being lost, once the message handler has exited
\* and dropped the receiver; until start_message_handler takes the receiver it
\* stays in self.message_rx
Send(cmd) ==
    IF background["handler"] = "exited"
    THEN UNCHANGED requests
    ELSE /\ Len(requests) < ChannelCapacity
         /\ requests' = Append(requests, cmd)

\* NetworkService::new
InitService ==
    /\ status = "Stopped"
    /\ peers = EmptyMap
    /\ peers_read_held = FALSE
    /\ requests = <<>>
    /\ task = [t \in Callers |-> NewCall]
    /\ stop_call = [pc |-> "new", todo |-> {}]

\* trigger_peer_discovery (service.rs:788-793) calls
\* bootstrap_peer_connections
TriggerPeerDiscovery(t) ==
    /\ task[t].pc = "new"
    /\ task' = [task EXCEPT ![t].pc = "bootstrap"]
    /\ UNCHANGED <<status, peers, peers_read_held, requests, stop_call,
                   connVars, sybilVars, taskVars, notService>>

\* ---- bootstrap_peer_connections (service.rs:375-394)

\* the end of one iteration of the loop: its locals are gone
Iterated(t) ==
    [task EXCEPT ![t].pc = "next", ![t].peer = NoPeer, ![t].connection = NoPeer]

\* peer_discovery.write().await.bootstrap().await?: it returns Ok with a list
Bootstrap(t) ==
    \E n \in 0..MaxDiscovered :
        /\ task[t].pc = "bootstrap"
        /\ task' = [task EXCEPT ![t].pc = "next", ![t].left = n]
        /\ UNCHANGED <<status, peers, peers_read_held, requests, stop_call,
                       connVars, sybilVars, taskVars, notService>>

\* for peer in discovered: peers.write().await.insert(peer.id, peer)
StorePeer(t) ==
    \E addr \in DiscoveredAddrs :
        LET info == PeerInfo(DiscoveredPeerId(addr), addr)
        IN  /\ task[t].pc = "next"
            /\ task[t].left > 0
            /\ ~peers_read_held
            /\ peers' = MapPut(peers, info.id, info)
            /\ task' = [task EXCEPT ![t].pc = "count", ![t].peer = info,
                                    ![t].left = @ - 1]
            /\ UNCHANGED <<status, peers_read_held, requests, stop_call,
                           connVars, sybilVars, taskVars, notService>>

\* if peers.read().await.len() < max_peers { connect_to_peer } else { break }
CountPeers(t) ==
    /\ task[t].pc = "count"
    /\ task' = IF Cardinality(DOMAIN peers) < MaxPeers
               THEN [task EXCEPT ![t].pc = "admit"]
               ELSE [Iterated(t) EXCEPT ![t].left = 0]
    /\ UNCHANGED <<status, peers, peers_read_held, requests, stop_call,
                   connVars, sybilVars, taskVars, notService>>

\* the list is exhausted, or the loop was left: Ok(())
BootstrapReturn(t) ==
    /\ task[t].pc = "next"
    /\ task[t].left = 0
    /\ task' = [task EXCEPT ![t].pc = "returned"]
    /\ UNCHANGED <<status, peers, peers_read_held, requests, stop_call,
                   connVars, sybilVars, taskVars, notService>>

\* ---- connect_to_peer (service.rs:397-428)

\* if !self.is_connection_allowed(&address).await { return Err(..) }
Admit(t) ==
    /\ task[t].pc = "admit"
    /\ task' = IF SybilProtection_is_connection_allowed(task[t].peer.address)
               THEN [task EXCEPT ![t].pc = "establish"]
               ELSE Iterated(t)
    /\ UNCHANGED <<status, peers, peers_read_held, requests, stop_call,
                   connVars, sybilVars, taskVars, notService>>

\* connection_manager.write().await.establish_outbound_connection(address):
\* the write guard is held until the call returns
ConnectBegin(t) ==
    /\ task[t].pc = "establish"
    /\ ConnectionManager_establish_begin(task[t].peer.address, t)
    /\ task' = IF cm_ret'.kind = "Err"
               THEN Iterated(t)
               ELSE [task EXCEPT ![t].pc = "establishing"]
    /\ UNCHANGED <<status, peers, peers_read_held, requests, stop_call,
                   sybilVars, taskVars, notService>>

ConnectDial(t) ==
    \E outcome \in {"connected", "failed", "timed out"} :
        /\ task[t].pc = "establishing"
        /\ cm_call.pc = "dial"
        /\ cm_call.caller = t
        /\ ConnectionManager_establish_dial(outcome)
        /\ task' = IF outcome = "connected" THEN task ELSE Iterated(t)
        /\ UNCHANGED <<status, peers, peers_read_held, requests, stop_call,
                       sybilVars, taskVars, notService>>

ConnectHandshake(t) ==
    /\ task[t].pc = "establishing"
    /\ cm_call.pc = "handshake"
    /\ cm_call.caller = t
    /\ ConnectionManager_establish_finish
    /\ task' = [task EXCEPT ![t].pc = "record", ![t].connection = cm_ret'.msg]
    /\ UNCHANGED <<status, peers, peers_read_held, requests, stop_call,
                   sybilVars, taskVars, notService>>

\* self.record_connection(address).await
RecordConnection(t) ==
    /\ task[t].pc = "record"
    /\ SybilProtection_record_connection(task[t].peer.address)
    /\ task' = [task EXCEPT ![t].pc = "store"]
    /\ UNCHANGED <<status, peers, peers_read_held, requests, stop_call,
                   connVars, taskVars, notService>>

\* self.peers.write().await.insert(connection.peer_id, peer_info)
StoreConnection(t) ==
    LET c == task[t].connection
    IN  /\ task[t].pc = "store"
        /\ ~peers_read_held
        /\ peers' = MapPut(peers, c.peer_id, PeerInfo(c.peer_id, c.address))
        /\ task' = [task EXCEPT ![t].pc = "notify"]
        /\ UNCHANGED <<status, peers_read_held, requests, stop_call, connVars,
                       sybilVars, taskVars, notService>>

\* _message_tx.send(NetworkMessage::PeerDiscovered(peer_info)).await
NotifyPeerDiscovered(t) ==
    LET c == task[t].connection
    IN  /\ task[t].pc = "notify"
        /\ Send(PeerDiscovered(PeerInfo(c.peer_id, c.address)))
        /\ task' = Iterated(t)
        /\ UNCHANGED <<status, peers, peers_read_held, stop_call, connVars,
                       sybilVars, taskVars, notService>>

\* ---- stop (service.rs:611-638)

\* status = Stopping; shutdown_signal.send(()) reaches the receivers that
\* exist at this moment
StopBegin ==
    /\ stop_call.pc = "new"
    /\ status' = "Stopping"
    /\ shutdown_rx' = [t \in Tasks |->
                           \/ shutdown_rx[t]
                           \/ (t \in Subscribers /\ background[t] = "running")]
    /\ stop_call' = [stop_call EXCEPT !.pc = "lock"]
    /\ UNCHANGED <<peers, peers_read_held, requests, task, connVars, sybilVars,
                   background, notService>>

\* for peer in self.peers.read().await.values(): the read guard lives as long
\* as the loop
StopLock ==
    /\ stop_call.pc = "lock"
    /\ peers_read_held' = TRUE
    /\ stop_call' = [pc |-> "recording", todo |-> DOMAIN peers]
    /\ UNCHANGED <<status, peers, requests, task, connVars, sybilVars,
                   taskVars, notService>>

\* self.record_disconnection(peer.address).await, in the map's order
StopRecord ==
    \E peer_id \in stop_call.todo :
        /\ stop_call.pc = "recording"
        /\ SybilProtection_record_disconnection(peers[peer_id].address)
        /\ stop_call' = [stop_call EXCEPT !.todo = @ \ {peer_id}]
        /\ UNCHANGED <<status, peers, peers_read_held, requests, task,
                       connVars, taskVars, notService>>

\* the loop ends and the read guard is dropped
StopUnlock ==
    /\ stop_call.pc = "recording"
    /\ stop_call.todo = {}
    /\ peers_read_held' = FALSE
    /\ stop_call' = [stop_call EXCEPT !.pc = "collect"]
    /\ UNCHANGED <<status, peers, requests, task, connVars, sybilVars,
                   taskVars, notService>>

\* let peers: Vec<PeerId> = self.peers.read().await.keys().copied().collect()
StopCollect ==
    /\ stop_call.pc = "collect"
    /\ stop_call' = [pc |-> "sending", todo |-> DOMAIN peers]
    /\ UNCHANGED <<status, peers, peers_read_held, requests, task, connVars,
                   sybilVars, taskVars, notService>>

\* _message_tx.send(NetworkMessage::Disconnect(peer_id, Normal)).await
StopSend ==
    \E peer_id \in stop_call.todo :
        /\ stop_call.pc = "sending"
        /\ Send(DisconnectCommand(peer_id, "Normal"))
        /\ stop_call' = [stop_call EXCEPT !.todo = @ \ {peer_id}]
        /\ UNCHANGED <<status, peers, peers_read_held, task, connVars,
                       sybilVars, taskVars, notService>>

\* status = Stopped; stop returns Ok
StopFinish ==
    /\ stop_call.pc = "sending"
    /\ stop_call.todo = {}
    /\ status' = "Stopped"
    /\ stop_call' = [stop_call EXCEPT !.pc = "returned"]
    /\ UNCHANGED <<peers, peers_read_held, requests, task, connVars, sybilVars,
                   taskVars, notService>>

NextService ==
    \/ \E t \in Callers : TriggerPeerDiscovery(t)
    \/ \E t \in Callers : Bootstrap(t)
    \/ \E t \in Callers : StorePeer(t)
    \/ \E t \in Callers : CountPeers(t)
    \/ \E t \in Callers : BootstrapReturn(t)
    \/ \E t \in Callers : Admit(t)
    \/ \E t \in Callers : ConnectBegin(t)
    \/ \E t \in Callers : ConnectDial(t)
    \/ \E t \in Callers : ConnectHandshake(t)
    \/ \E t \in Callers : RecordConnection(t)
    \/ \E t \in Callers : StoreConnection(t)
    \/ \E t \in Callers : NotifyPeerDiscovered(t)
    \/ StopBegin
    \/ StopLock
    \/ StopRecord
    \/ StopUnlock
    \/ StopCollect
    \/ StopSend
    \/ StopFinish

\* ---- claims about the Sybil admission, checked under SpecService

\* the per-IP counts of the addresses in one subnet, added up
SubnetSum(subnet) ==
    SumOver(connection_counts,
            {ip \in DOMAIN connection_counts : get_subnet_for_ip(ip) = subnet})

\* the per-IP counts of the addresses mapped to one ASN, added up
AsnSum(asn) ==
    SumOver(connection_counts,
            {ip \in DOMAIN connection_counts :
                 IpAsnLookup_get_asn_for_ip(ip) = [some |-> TRUE, asn |-> asn]})

MaxMajor == 2
MaxMinor == 1
MaxPatch == 1

ProtocolVersion(major, minor, patch) ==
    [major |-> major, minor |-> minor, patch |-> patch]

Versions ==
    {ProtocolVersion(a, b, c) : a \in 1..MaxMajor, b \in 0..MaxMinor,
                                c \in 0..MaxPatch}

\* the version every node builds its defaults from: ProtocolVersion::new(1, 0, 0)
BaseVersion == ProtocolVersion(1, 0, 0)

NegProtocols == {"PeerDiscovery", "BlockSync"}

Min(a, b) == IF a <= b THEN a ELSE b

\* self.is_compatible_with(other)
is_compatible_with(self, other) ==
    IF self.major # other.major THEN FALSE
    ELSE IF self.minor < other.minor THEN FALSE
    ELSE TRUE

\* negotiate: the protocols part of the result
NegotiatedProtocols(local, min_versions, remote) ==
    LET kept == {p \in DOMAIN local \cap DOMAIN remote :
                    ~(p \in DOMAIN min_versions
                      /\ ~is_compatible_with(min_versions[p], remote[p]))}
    IN  [p \in kept |->
            ProtocolVersion(local[p].major,
                            Min(local[p].minor, remote[p].minor),
                            Min(local[p].patch, remote[p].patch))]

\* ProtocolNegotiator::negotiate(&remote_capabilities)
ProtocolNegotiator_negotiate(local, min_versions, remote) ==
    [protocols |-> NegotiatedProtocols(local.supported_protocols, min_versions,
                                       remote.supported_protocols),
     features |-> local.features \cap remote.features]

NoNegotiation == [none |-> TRUE]

\* the maps from some of the protocols ps to the versions vs
VersionMaps(ps, vs) == UNION {[d -> vs] : d \in SUBSET ps}

\* default_capabilities("full") always supports PeerDiscovery 1.0.0; the
\* version of BlockSync is left open
LocalCapabilities ==
    {[supported_protocols |-> MapPut(m, "PeerDiscovery", BaseVersion),
      features |-> {"Compression", "CompactTransactions"}] :
         m \in VersionMaps({"BlockSync"}, Versions)}

MinVersions ==
    {IF pd THEN MapPut(m, "PeerDiscovery", BaseVersion) ELSE m :
         pd \in BOOLEAN, m \in VersionMaps({"BlockSync"}, Versions)}

\* what a peer advertises: any version of BlockSync or none, and for
\* PeerDiscovery none, the base version, a later minor or a later major
RemoteDiscoveryVersions ==
    {BaseVersion, ProtocolVersion(1, MaxMinor, 0), ProtocolVersion(MaxMajor, 0, 0)}

RemoteCapabilities ==
    {[supported_protocols |-> m @@ d, features |-> f] :
         m \in VersionMaps({"BlockSync"}, Versions),
         d \in VersionMaps({"PeerDiscovery"}, RemoteDiscoveryVersions),
         f \in {{}, {"Compression", "FastSync"}}}

\* ProtocolNegotiator::new(local_capabilities, min_versions)
InitNeg ==
    /\ local_capabilities \in LocalCapabilities
    /\ min_compatible_version \in MinVersions
    /\ remote_capabilities = NoNegotiation
    /\ negotiated = NoNegotiation
    /\ negotiate_ret = NoReturn

\* negotiate_protocols(peer_id, remote_capabilities): negotiate, then
\* store_peer_negotiated_protocols, which logs the result and returns Ok
NegotiateProtocols ==
    \E remote \in RemoteCapabilities :
        /\ remote_capabilities' = remote
        /\ negotiated' = ProtocolNegotiator_negotiate(local_capabilities,
                             min_compatible_version, remote)
        /\ negotiate_ret' = Ok("unit")
        /\ UNCHANGED <<local_capabilities, min_compatible_version, notNeg>>

NextNeg == NegotiateProtocols

\* ---- claims about the negotiation, checked under SpecNeg

\* a is below b, compared by major, then minor, then patch
VersionBelow(a, b) ==
    \/ a.major < b.major
    \/ a.major = b.major /\ a.minor < b.minor
    \/ a.major = b.major /\ a.minor = b.minor /\ a.patch < b.patch

\* the version the two sides should settle on for protocol p
AgreedVersion(p) ==
    LET l == local_capabilities.supported_protocols[p]
        r == remote_capabilities.supported_protocols[p]
    IN  ProtocolVersion(l.major, Min(l.minor, r.minor), Min(l.patch, r.patch))

SupportedByBoth(p) ==
    /\ p \in DOMAIN local_capabilities.supported_protocols
    /\ p \in DOMAIN remote_capabilities.supported_protocols

SameMajor(p) ==
    local_capabilities.supported_protocols[p].major =
        remote_capabilities.supported_protocols[p].major

\* C11: a protocol supported by both sides with equal majors, whose agreed
\* version (major, least minor, least patch) is not below the configured
\* minimum, is in the result of negotiate with exactly that version.
CompatiblePairsNegotiated ==
    negotiated # NoNegotiation =>
        \A p \in NegProtocols :
            (/\ SupportedByBoth(p)
             /\ SameMajor(p)
             /\ p \in DOMAIN min_compatible_version =>
                    ~VersionBelow(AgreedVersion(p), min_compatible_version[p]))
            => /\ p \in DOMAIN negotiated.protocols
               /\ negotiated.protocols[p] = AgreedVersion(p)

\* C12: a protocol whose local and remote majors differ is not in the
\* negotiated set, and a peer left with no protocol other than PeerDiscovery
\* is rejected by negotiate_protocols with IncompatibleProtocol.
IncompatibleMajorsRejected ==
    negotiated # NoNegotiation =>
        /\ \A p \in DOMAIN negotiated.protocols : SameMajor(p)
        /\ DOMAIN negotiated.protocols \subseteq {"PeerDiscovery"}
               => negotiate_ret = Err("IncompatibleProtocol")

\* ------------------------------------------------------------------------
\* BlockPropagator (block_propagation.rs)
\* ------------------------------------------------------------------------
MaxBlockTxs == 2

\* [0; 32], the value Transaction::hash and Block::hash return
ZeroHash == [i \in 1..32 |-> 0]

Transaction_hash(tx) == ZeroHash
Block_hash(block) == ZeroHash

\* create_short_transaction_id: the u64 read from the first 8 bytes of the
\* hash, kept as these 8 little-endian bytes
create_short_transaction_id(tx_hash) == SubSeq(tx_hash, 1, 8)

\* estimate_transaction_prevalence returns 0.8 (in tenths)
PrevalenceEstimate == 8

\* BlockPropagator::new(true, 0.8) in the service, and a lower threshold
Thresholds == {5, PrevalenceEstimate}

Transactions == {[version |-> 1, lock_time |-> t] : t \in 1..2}
BlockHeaders == {[version |-> 1, nonce |-> n] : n \in 1..2}

Blocks ==
    {[header |-> h, transactions |-> txs] :
         h \in BlockHeaders,
         txs \in UNION {[1..n -> Transactions] : n \in 0..MaxBlockTxs}}

\* the elements of sequence q that satisfy Keep, in their order, mapped by F
SelectMap(q, Keep(_), F(_)) ==
    LET kept == SelectSeq(q, Keep)
    IN  [i \in 1..Len(kept) |-> F(kept[i])]

\* create_compact_block(&block)
BlockPropagator_create_compact_block(block, threshold) ==
    LET Likely(tx) == PrevalenceEstimate > threshold
        Unlikely(tx) == ~Likely(tx)
        ShortId(tx) == create_short_transaction_id(Transaction_hash(tx))
    IN  [kind |-> "CompactBlock",
         header |-> block.header,
         short_ids |-> SelectMap(block.transactions, Likely, ShortId),
         missing_transaction_hashes |->
             SelectMap(block.transactions, Unlikely, Transaction_hash)]

\* lookup_transaction_by_short_id returns None for every short id
BlockPropagator_lookup_transaction_by_short_id(pool, short_id) ==
    [some |-> FALSE]

\* verify_block_integrity returns true
BlockPropagator_verify_block_integrity(block) == TRUE

\* handle_compact_block(announcement) on a propagator with mempool pool:
\* Ok(Some(block)), Ok(None) or Err
BlockPropagator_handle_compact_block(pool, announcement) ==
    IF announcement.kind = "CompactBlock"
    THEN LET Found(id) ==
                 BlockPropagator_lookup_transaction_by_short_id(pool, id).some
             Missing(id) == ~Found(id)
             Tx(id) == BlockPropagator_lookup_transaction_by_short_id(pool, id).tx
             Same(id) == id
             transactions == SelectMap(announcement.short_ids, Found, Tx)
             missing_short_ids == SelectMap(announcement.short_ids, Missing, Same)
             block == [header |-> announcement.header,
                       transactions |-> transactions]
         IN  IF missing_short_ids # <<>>
                \/ announcement.missing_transaction_hashes # <<>>
             THEN Ok([some |-> FALSE])
             ELSE IF ~BlockPropagator_verify_block_integrity(block)
             THEN Err("Verificacion de integridad del bloque fallida")
             ELSE Ok([some |-> TRUE, block |-> block])
    ELSE Err("No es un anuncio de bloque compacto")

NoAnnouncement == [none |-> TRUE]

\* BlockPropagator::new(compact_enabled, threshold)
InitBlock ==
    /\ mempool = EmptyMap
    /\ seen_blocks = {}
    /\ compact_blocks_enabled \in BOOLEAN
    /\ mempool_prevalence_threshold \in Thresholds
    /\ announced = NoAnnouncement
    /\ reconstructed = NoResult

\* add_transaction_to_mempool(transaction)
AddTransactionToMempool ==
    \E tx \in Transactions :
        /\ mempool' = MapPut(mempool, Transaction_hash(tx), tx)
        /\ UNCHANGED <<seen_blocks, compact_blocks_enabled,
                       mempool_prevalence_threshold, announced, reconstructed,
                       notBlock>>

\* propagate_block(block, peer_preferences): a block seen before is dropped;
\* otherwise it is marked as seen and its announcements are built
BlockPropagator_propagate_block(block) ==
    IF Block_hash(block) \in seen_blocks
    THEN UNCHANGED <<seen_blocks, announced>>
    ELSE /\ seen_blocks' = seen_blocks \cup {Block_hash(block)}
         /\ announced' =
                [block |-> block,
                 compact |->
                     IF compact_blocks_enabled
                     THEN BlockPropagator_create_compact_block(
                              block, mempool_prevalence_threshold)
                     ELSE NoAnnouncement]

PropagateBlock ==
    \E block \in Blocks :
        /\ BlockPropagator_propagate_block(block)
        /\ UNCHANGED <<mempool, compact_blocks_enabled,
                       mempool_prevalence_threshold, reconstructed, notBlock>>

\* handle_compact_block(announcement), for the compact announcement of the
\* announced block, or for an announcement of another kind
HandleCompactBlock ==
    \E announcement \in
           (IF announced # NoAnnouncement /\ announced.compact # NoAnnouncement
            THEN {announced.compact} ELSE {})
           \cup {[kind |-> "HeaderOnly", header |-> h] : h \in BlockHeaders} :
        /\ reconstructed' =
               [of |-> announcement,
                ret |-> BlockPropagator_handle_compact_block(mempool, announcement)]
        /\ UNCHANGED <<mempool, seen_blocks, compact_blocks_enabled,
                       mempool_prevalence_threshold, announced, notBlock>>

NextBlock ==
    \/ AddTransactionToMempool
    \/ PropagateBlock
    \/ HandleCompactBlock

\* ---- claims about the block propagation, checked under SpecBlock

\* the mempool holds every transaction of the block
MempoolHolds(block) ==
    \A i \in 1..Len(block.transactions) :
        LET tx == block.transactions[i]
        IN  /\ Transaction_hash(tx) \in DOMAIN mempool
            /\ mempool[Transaction_hash(tx)] = tx

\* C13: when the receiver's mempool holds every transaction of block B,
\* handle_compact_block of the compact announcement built from B returns a
\* reconstructed block with B's header and B's transactions in B's order.
CompactBlockReconstruction ==
    (/\ reconstructed # NoResult
     /\ announced # NoAnnouncement
     /\ reconstructed.of = announced.compact
     /\ MempoolHolds(announced.block))
    => reconstructed.ret = Ok([some |-> TRUE, block |-> announced.block])

\* ------------------------------------------------------------------------
\* DoSProtection, RateLimiter, ExpiringSet (security.rs); time in seconds
\* ------------------------------------------------------------------------
MaxScore == 20
MaxDosTime == 2

BanThreshold == 20
ViolatorTtl == 300
SecondsPerHour == 3600
MaxBanHours == 168

\* the peers of the node and the addresses they are connected from
DosPeers == {"pA", "pB"}
PeerAddr(peer_id) == IF peer_id = "pA" THEN IpA ELSE IpB

\* config.whitelist: none, or the address of pA
Whitelists == {{}, {IpA}}

\* RateLimiter::new(capacity, refill_rate) for each resource that has one
RateLimiters ==
    [InboundConnections |-> [capacity |-> 5, refill_rate |-> 1],
     BlockRequests |-> [capacity |-> 10, refill_rate |-> 2],
     TransactionAnnouncements |-> [capacity |-> 100, refill_rate |-> 50],
     TotalBandwidth |-> [capacity |-> 1000000, refill_rate |-> 500000]]

\* the resources and amounts check_rate_limit is called with
RequestedResources == {"InboundConnections", "RpcRequests"}
RequestedAmounts == {1, 5}

\* ViolationType::penalty_points
penalty_points(violation) ==
    CASE violation = "RateLimit" -> 1
      [] violation = "ProtocolViolation" -> 5
      [] violation = "InvalidMessage" -> 2
      [] violation = "InvalidBlock" -> 10
      [] violation = "InvalidTransaction" -> 3

\* the violations recorded
Violations == {"ProtocolViolation", "InvalidBlock"}

\* RateLimiter::refill_if_needed at time t: [tokens, last]
RateLimiter_refill_if_needed(limiter, tokens, last, t) ==
    LET elapsed_seconds == t - last
        new_tokens == elapsed_seconds * limiter.refill_rate
    IN  IF elapsed_seconds = 0 \/ new_tokens = 0
        THEN [tokens |-> tokens, last |-> last]
        ELSE [tokens |-> Min(tokens + new_tokens, limiter.capacity),
              last |-> t]

\* RateLimiter::try_consume(amount) at time t: [ok, tokens, last]
RateLimiter_try_consume(limiter, tokens, last, amount, t) ==
    LET refilled == RateLimiter_refill_if_needed(limiter, tokens, last, t)
    IN  IF refilled.tokens < amount
        THEN [ok |-> FALSE, tokens |-> refilled.tokens, last |-> refilled.last]
        ELSE [ok |-> TRUE, tokens |-> refilled.tokens - amount,
              last |-> refilled.last]

RECURSIVE Pow2(_)
Pow2(n) == IF n = 0 THEN 1 ELSE 2 * Pow2(n - 1)

\* calculate_ban_duration(peer_id), in seconds
DoSProtection_calculate_ban_duration(scores, peer_id) ==
    LET score == MapGetOr(scores, peer_id, 0)
        hours == Min(Pow2(score \div 5) - 1, MaxBanHours)
    IN  hours * SecondsPerHour

\* ban_peer(peer_id): the new banned_addresses.entries. The future returned
\* by connection_manager.disconnect is dropped without being awaited, so
\* nothing is sent on disconnect_tx.
DoSProtection_ban_peer(scores, peer_id) ==
    IF peer_id \in DOMAIN peer_to_addr
    THEN MapPut(banned_addresses, peer_to_addr[peer_id],
                now + DoSProtection_calculate_ban_duration(scores, peer_id))
    ELSE banned_addresses

\* DoSProtection::new(connection_manager, whitelist)
InitDos ==
    /\ current_tokens = [r \in DOMAIN RateLimiters |-> RateLimiters[r].capacity]
    /\ last_refill = [r \in DOMAIN RateLimiters |-> 0]
    /\ penalty_scores = EmptyMap
    /\ recent_violators = EmptyMap
    /\ whitelist \in Whitelists
    /\ peer_to_addr = EmptyMap
    /\ banned_addresses = EmptyMap
    /\ disconnect_tx = <<>>
    /\ rate_call = NoResult

\* check_rate_limit(resource, peer_id, amount)
CheckRateLimit ==
    \E resource \in RequestedResources, peer_id \in DosPeers,
       amount \in RequestedAmounts :
        LET call == [resource |-> resource, peer_id |-> peer_id,
                     amount |-> amount]
        IN  /\ IF peer_id \in DOMAIN peer_to_addr
                  /\ peer_to_addr[peer_id] \in whitelist
               THEN /\ rate_call' = [call |-> call, ret |-> Ok("unit"),
                                     consumed |-> 0]
                    /\ UNCHANGED <<current_tokens, last_refill>>
               ELSE IF resource \notin DOMAIN RateLimiters
               THEN /\ rate_call' = [call |-> call,
                                     ret |-> Err("Rate limiter not found"),
                                     consumed |-> 0]
                    /\ UNCHANGED <<current_tokens, last_refill>>
               ELSE LET r == RateLimiter_try_consume(
                                 RateLimiters[resource],
                                 current_tokens[resource],
                                 last_refill[resource], amount, now)
                    IN  /\ current_tokens' =
                               [current_tokens EXCEPT ![resource] = r.tokens]
                        /\ last_refill' =
                               [last_refill EXCEPT ![resource] = r.last]
                        /\ rate_call' =
                               [call |-> call,
                                ret |-> IF r.ok THEN Ok("unit")
                                        ELSE Err("Rate limit exceeded"),
                                consumed |-> IF r.ok THEN amount ELSE 0]
            /\ UNCHANGED <<penalty_scores, recent_violators, whitelist,
                           peer_to_addr, banned_addresses, disconnect_tx,
                           now, notDos>>

\* record_violation(peer_id, violation)
RecordViolation ==
    \E peer_id \in DosPeers, violation \in Violations :
        LET score == MapGetOr(penalty_scores, peer_id, 0)
                         + penalty_points(violation)
            scores == MapPut(penalty_scores, peer_id, score)
        IN  /\ score <= MaxScore
            /\ recent_violators' =
                   MapPut(recent_violators, peer_id,
                          [value |-> violation, expiry |-> now + ViolatorTtl])
            /\ penalty_scores' = scores
            /\ banned_addresses' =
                   IF score >= BanThreshold
                   THEN DoSProtection_ban_peer(scores, peer_id)
                   ELSE banned_addresses
            /\ UNCHANGED <<current_tokens, last_refill, whitelist,
                           peer_to_addr, disconnect_tx, rate_call, now,
                           notDos>>

\* time passes
DosTick ==
    /\ now < MaxDosTime
    /\ now' = now + 1
    /\ UNCHANGED <<dosVars, notDos>>

NextDos ==
    \/ CheckRateLimit
    \/ RecordViolation
    \/ DosTick

\* ---- claims about the DoS protection, checked under SpecDos

\* C14: once record_violation has brought a peer's score to ban_threshold or
\* more, the peer's IP address is in the banned set and a disconnect request
\* for the peer with reason PeerBanned has been sent to the connection
\* manager.
BanAtThreshold ==
    \A peer_id \in DOMAIN penalty_scores :
        penalty_scores[peer_id] >= BanThreshold
        => /\ PeerAddr(peer_id) \in DOMAIN banned_addresses
           /\ \E i \in 1..Len(disconnect_tx) :
                  disconnect_tx[i] = <<peer_id, "PeerBanned">>

\* no address is ever put into the banned set
BannedSetStaysEmpty == banned_addresses = EmptyMap

\* no peer is ever known by address to the DoS protection
PeerToAddrStaysEmpty == peer_to_addr = EmptyMap

\* C16: a peer whose IP address is whitelisted is never refused by
\* check_rate_limit and never consumes tokens, and its IP address is never
\* in the banned set, whatever violations are recorded against it.
WhitelistExempt ==
    \A peer_id \in DosPeers :
        PeerAddr(peer_id) \in whitelist
        => /\ (rate_call # NoResult /\ rate_call.call.peer_id = peer_id)
                  => (rate_call.ret = Ok("unit") /\ rate_call.consumed = 0)
           /\ PeerAddr(peer_id) \notin DOMAIN banned_addresses

\* ------------------------------------------------------------------------
\* NetworkService (service.rs): start, the tasks it spawns, the message
\* handler, stop
\* ------------------------------------------------------------------------
MaxCommands == 1
ResponseCapacity == 2

\* the call of bootstrap_peer_connections that start makes
StartCaller == "c1"

\* the addresses the listener accepts connections from
AcceptedAddrs == {AddrC}

NoCommand == [none |-> TRUE]

SendMessageCommand == [kind |-> "SendMessage"]

\* the commands handle_network_message answers with a NetworkResponse
RepliedKinds == {"Connect", "SendMessage", "Broadcast", "GetPeers", "Shutdown"}

\* the commands that are to produce a reply
RequestKinds == RepliedKinds \cup {"Disconnect"}

\* no task is spawned by NetworkService::new
InitTasks ==
    /\ background = [t \in Tasks |-> "none"]
    /\ shutdown_rx = [t \in Tasks |-> FALSE]

\* NetworkService::new(config), in a build with or without metrics
InitLife ==
    /\ start_call = [pc |-> "new", ret |-> NoReturn]
    /\ enable_upnp \in BOOLEAN
    /\ metrics \in BOOLEAN
    /\ handling = NoCommand
    /\ responses = <<>>
    /\ handled = NoCommand
    /\ api_calls = 0

\* ---- start (service.rs:221-290)

\* *self.status.write().await = NetworkStatus::Starting
StartBegin ==
    /\ start_call.pc = "new"
    /\ status' = "Starting"
    /\ start_call' = [start_call EXCEPT !.pc = "listeners"]
    /\ UNCHANGED <<peers, peers_read_held, requests, task, stop_call, connVars,
                   sybilVars, taskVars, enable_upnp, metrics, handling,
                   responses, handled, api_calls, notLife>>

\* start_listeners().await?: the listen address is bound and its accept loop
\* is spawned with a new receiver of shutdown_signal, or no address is bound
\* and start returns Err
StartListeners ==
    \E bound \in BOOLEAN :
        /\ start_call.pc = "listeners"
        /\ IF bound
           THEN /\ background' = [background EXCEPT !["listener"] = "running"]
                /\ start_call' = [start_call EXCEPT !.pc = "nat"]
           ELSE /\ start_call' =
                       [pc |-> "returned",
                        ret |-> Err("Failed to bind to any listen addresses")]
                /\ UNCHANGED background
        /\ UNCHANGED <<serviceVars, connVars, sybilVars, shutdown_rx,
                       enable_upnp, metrics, handling, responses, handled,
                       api_calls, notLife>>

\* discover_nat_type returns Ok(Unknown), NatTraversal::default() having no
\* STUN server; try_upnp_port_mapping returns Err("UPnP is disabled"),
\* NatTraversal::default() having upnp_enabled = false. Then
\* bootstrap_peer_connections is called.
StartNat ==
    /\ start_call.pc = "nat"
    /\ IF enable_upnp
       THEN /\ start_call' = [pc |-> "returned", ret |-> Err("UPnP is disabled")]
            /\ UNCHANGED task
       ELSE /\ start_call' = [start_call EXCEPT !.pc = "bootstrap"]
            /\ task' = [task EXCEPT ![StartCaller].pc = "bootstrap"]
    /\ UNCHANGED <<status, peers, peers_read_held, requests, stop_call,
                   connVars, sybilVars, taskVars, enable_upnp, metrics,
                   handling, responses, handled, api_calls,
                   notLife>>

\* bootstrap_peer_connections has returned Ok; setup_block_propagation (its
\* writes are read by propagate_block only); start_maintenance_tasks spawns
\* the maintenance task with a new receiver of shutdown_signal
StartMaintenance ==
    /\ start_call.pc = "bootstrap"
    /\ task[StartCaller].pc = "returned"
    /\ background' = [background EXCEPT !["maintenance"] = "running"]
    /\ start_call' = [start_call EXCEPT !.pc = "handler"]
    /\ UNCHANGED <<serviceVars, connVars, sybilVars, shutdown_rx, enable_upnp,
                   metrics, handling, responses, handled, api_calls, notLife>>

\* start_message_handler: the receiver is taken out of self.message_rx and
\* the handler is spawned with a new receiver of shutdown_signal
StartMessageHandler ==
    /\ start_call.pc = "handler"
    /\ background' = [background EXCEPT !["handler"] = "running"]
    /\ start_call' = [start_call EXCEPT !.pc = "health"]
    /\ UNCHANGED <<serviceVars, connVars, sybilVars, shutdown_rx, enable_upnp,
                   metrics, handling, responses, handled, api_calls, notLife>>

\* if let Some(metrics) = &self.metrics: the health checker is spawned
StartHealthChecker ==
    /\ start_call.pc = "health"
    /\ background' = IF metrics
                     THEN [background EXCEPT !["health"] = "running"]
                     ELSE background
    /\ start_call' = [start_call EXCEPT !.pc = "finish"]
    /\ UNCHANGED <<serviceVars, connVars, sybilVars, shutdown_rx, enable_upnp,
                   metrics, handling, responses, handled, api_calls, notLife>>

\* *self.status.write().await = NetworkStatus::Running; Ok(())
StartFinish ==
    /\ start_call.pc = "finish"
    /\ status' = "Running"
    /\ start_call' = [pc |-> "returned", ret |-> Ok("unit")]
    /\ UNCHANGED <<peers, peers_read_held, requests, task, stop_call, connVars,
                   sybilVars, taskVars, enable_upnp, metrics, handling,
                   responses, handled, api_calls, notLife>>

\* ---- handle_incoming_connections (service.rs:336-372)

\* select! takes the accepted connection: connection_manager.write().await
\* .handle_inbound_connection(stream, addr)
ListenerAccept ==
    \E addr \in AcceptedAddrs :
        /\ background["listener"] = "running"
        /\ ConnectionManager_handle_inbound_connection(addr)
        /\ UNCHANGED <<serviceVars, sybilVars, taskVars, lifeVars, notLife>>

\* select! takes shutdown_signal.recv(): break
ListenerExit ==
    /\ background["listener"] = "running"
    /\ shutdown_rx["listener"]
    /\ background' = [background EXCEPT !["listener"] = "exited"]
    /\ UNCHANGED <<serviceVars, connVars, sybilVars, shutdown_rx, lifeVars,
                   notLife>>

\* ---- the maintenance task (service.rs:431-479)

\* interval.tick(): perform_maintenance does nothing
MaintenanceTick ==
    /\ background["maintenance"] = "running"
    /\ UNCHANGED vars

MaintenanceExit ==
    /\ background["maintenance"] = "running"
    /\ shutdown_rx["maintenance"]
    /\ background' = [background EXCEPT !["maintenance"] = "exited"]
    /\ UNCHANGED <<serviceVars, connVars, sybilVars, shutdown_rx, lifeVars,
                   notLife>>

\* ---- the message handler (service.rs:482-584)

\* select! takes message_rx.recv()
HandlerRecv ==
    /\ background["handler"] = "running"
    /\ handling = NoCommand
    /\ requests # <<>>
    /\ handling' = [command |-> Head(requests), status |-> status]
    /\ requests' = Tail(requests)
    /\ UNCHANGED <<status, peers, peers_read_held, task, stop_call, connVars,
                   sybilVars, taskVars, start_call, enable_upnp, metrics,
                   responses, handled, api_calls, notLife>>

\* handle_network_message(msg, ..): the replies it sends on response_tx
Replies(command) == IF command.kind \in RepliedKinds THEN 1 ELSE 0

\* handle_network_message for the command taken; response_tx.send waits
\* while the response channel is full
HandlerApply ==
    LET command == handling.command
        replies == Replies(command)
    IN  /\ background["handler"] = "running"
        /\ handling # NoCommand
        /\ CASE command.kind = "Disconnect" ->
                   /\ ConnectionManager_disconnect(command.peer_id,
                                                   command.reason)
                   /\ UNCHANGED peers
             [] command.kind = "PeerDiscovered" ->
                   /\ ~peers_read_held
                   /\ peers' = MapPut(peers, command.peer.id, command.peer)
                   /\ UNCHANGED connVars
             [] OTHER -> UNCHANGED <<peers, connVars>>
        /\ Len(responses) + replies <= ResponseCapacity
        /\ responses' = IF replies = 1
                        THEN Append(responses, command.kind)
                        ELSE responses
        /\ handled' = [kind |-> command.kind, status |-> handling.status,
                       replies |-> replies]
        /\ handling' = NoCommand
        /\ UNCHANGED <<status, peers_read_held, requests, task, stop_call,
                       sybilVars, taskVars, start_call, enable_upnp, metrics,
                       api_calls, notLife>>

\* select! takes shutdown_signal.recv(): break; the receiver of the request
\* channel is dropped, and what is left in the channel is never received
HandlerExit ==
    /\ background["handler"] = "running"
    /\ handling = NoCommand
    /\ shutdown_rx["handler"]
    /\ background' = [background EXCEPT !["handler"] = "exited"]
    /\ UNCHANGED <<serviceVars, connVars, sybilVars, shutdown_rx, lifeVars,
                   notLife>>

\* ---- HealthChecker::run (metrics/mod.rs:70-87): no shutdown receiver

\* interval.tick(), check_health: it reads the peers and stores the status
\* in its own last_status; its corrective actions only log
HealthTick ==
    /\ background["health"] = "running"
    /\ UNCHANGED vars

\* ---- send_message (service.rs:587-592)

\* _message_tx.send(NetworkMessage::SendMessage(peer_id, message)).await
ApiSend ==
    /\ api_calls < MaxCommands
    /\ api_calls' = api_calls + 1
    /\ Send(SendMessageCommand)
    /\ UNCHANGED <<status, peers, peers_read_held, task, stop_call, connVars,
                   sybilVars, taskVars, start_call, enable_upnp, metrics,
                   handling, responses, handled, notLife>>

NextLife ==
    \/ StartBegin
    \/ StartListeners
    \/ StartNat
    \/ Bootstrap(StartCaller)
    \/ StorePeer(StartCaller)
    \/ CountPeers(StartCaller)
    \/ BootstrapReturn(StartCaller)
    \/ Admit(StartCaller)
    \/ ConnectBegin(StartCaller)
    \/ ConnectDial(StartCaller)
    \/ ConnectHandshake(StartCaller)
    \/ RecordConnection(StartCaller)
    \/ StoreConnection(StartCaller)
    \/ NotifyPeerDiscovered(StartCaller)
    \/ StartMaintenance
    \/ StartMessageHandler
    \/ StartHealthChecker
    \/ StartFinish
    \/ ListenerAccept
    \/ ListenerExit
    \/ MaintenanceTick
    \/ MaintenanceExit
    \/ HandlerRecv
    \/ HandlerApply
    \/ HandlerExit
    \/ HealthTick
    \/ ApiSend
    \/ StopBegin
    \/ StopLock
    \/ StopRecord
    \/ StopUnlock
    \/ StopCollect
    \/ StopSend
    \/ StopFinish

\* ---- claims about the life cycle, checked under SpecLife

LifecycleSteps ==
    {<<"Stopped", "Starting">>, <<"Starting", "Running">>,
     <<"Running", "Stopping">>, <<"Stopping", "Stopped">>}

\* C17: under any interleaving of start and stop, the status only moves along
\* Stopped -> Starting -> Running -> Stopping -> Stopped.
LifecycleOrder ==
    [][status' # status => <<status, status'>> \in LifecycleSteps]_vars

\* the Disconnect(peer, Normal) commands of stop waiting in the channel
PendingDisconnects ==
    {i \in 1..Len(requests) :
         /\ requests[i].kind = "Disconnect"
         /\ requests[i].reason = "Normal"}

RepliedKindsGetOneReply ==
    (handled # NoCommand /\ handled.kind \in RepliedKinds)
    => handled.replies = 1

\* C18: once stop has sent the shutdown signal, every background task that
\* is running (the accept loop of the listener, the maintenance task and the
\* message handler when the signal has reached them, and the health checker)
\* eventually exits.
TasksExitAfterShutdown ==
    \A t \in Tasks :
        (/\ stop_call.pc # "new"
         /\ background[t] = "running"
         /\ t \in Subscribers => shutdown_rx[t])
            ~> (background[t] = "exited")

\* ------------------------------------------------------------------------
\* BroadcastManager (propagation.rs:11-213) and hash_message
\* (message.rs:216-232)
\* ------------------------------------------------------------------------
\* RecentMessages::new(1000, config.message_ttl), scaled down
BroadcastCapacity == 2

MaxBroadcastTime == 2

BroadcastPeers == {"pA", "pB"}

\* a ^ b on bytes
RECURSIVE BitXor(_, _)
BitXor(a, b) ==
    IF a = 0 /\ b = 0 THEN 0
    ELSE ((a + b) % 2) + 2 * BitXor(a \div 2, b \div 2)

\* the value of result[k - 1] after payload[0 .. i - 1] has been XORed in
\* (sequences are indexed from 1, the array from 0)
RECURSIVE XorPayload(_, _, _)
XorPayload(payload, k, i) ==
    IF i = 0 THEN 0
    ELSE IF 5 + ((i - 1) % 28) = k
         THEN BitXor(XorPayload(payload, k, i - 1), payload[i])
         ELSE XorPayload(payload, k, i - 1)

\* hash_message: protocol id and message type in the first four bytes, the
\* payload XORed over the other twenty-eight
hash_message(m) ==
    [k \in 1..32 |->
        CASE k = 1 -> m.header.protocol_id % 256
          [] k = 2 -> (m.header.protocol_id \div 256) % 256
          [] k = 3 -> m.header.message_type % 256
          [] k = 4 -> (m.header.message_type \div 256) % 256
          [] OTHER -> XorPayload(m.payload, k, Len(m.payload))]

\* f32 fractions that are exact in binary: quarters
FractionUnit == 4

AllPeers == [kind |-> "AllPeers"]
RandomSubset(fraction, min_peers) ==
    [kind |-> "RandomSubset", fraction |-> fraction, min_peers |-> min_peers]
ValidatorPriority(validators_first) ==
    [kind |-> "ValidatorPriority", validators_first |-> validators_first]
Geographic(prefer_same_region) ==
    [kind |-> "Geographic", prefer_same_region |-> prefer_same_region]

BroadcastPolicies ==
    {AllPeers}
        \cup {RandomSubset(f, m) : f \in {1, 2, FractionUnit}, m \in {0, 2}}
        \cup {ValidatorPriority(v) : v \in BOOLEAN}
        \cup {Geographic(g) : g \in BOOLEAN}

BroadcastProtocols == {"Transaction", "BlockExchange"}

BroadcastMessages ==
    {Message_new("Transaction", 1, pl) :
         pl \in {<<>>, <<0>>, <<U8Max>>}}

\* ((peers.len() as f32 * fraction) as usize).max(min_peers).min(peers.len()):
\* the cast to usize drops the fractional part
RandomSubset_count(n, fraction, min_peers) ==
    LET scaled == (n * fraction) \div FractionUnit
        raised == IF scaled >= min_peers THEN scaled ELSE min_peers
    IN  IF raised <= n THEN raised ELSE n

\* select_random_peers: shuffle, truncate to count; the lists it can return,
\* as sets of peers
select_random_peers(ids, fraction, min_peers) ==
    {s \in SUBSET ids :
         Cardinality(s) = RandomSubset_count(Cardinality(ids), fraction, min_peers)}

\* select_validators_first: the validators (when validators_first), then
\* every peer not yet in the list; as a set of peers
select_validators_first(ids, validators_first, capabilities) ==
    LET first == IF validators_first
                 THEN {p \in ids : p \in DOMAIN capabilities
                                     /\ capabilities[p].is_validator}
                 ELSE {}
    IN  first \cup {p \in ids : p \notin first}

\* get_local_region returns None
get_local_region == "None"

\* select_by_region: the peers of the local region, then the others; as a
\* set of peers
select_by_region(ids, prefer_same_region, capabilities) ==
    IF ~prefer_same_region THEN ids
    ELSE LET same_region == {p \in ids : p \in DOMAIN capabilities
                                /\ capabilities[p].region = get_local_region}
             other_regions == {p \in ids : p \notin same_region}
         IN  same_region \cup other_regions

\* the sets of peers the policy can select among the connected peers
SelectedPeers(policy, ids, capabilities) ==
    CASE policy.kind = "AllPeers" -> {ids}
      [] policy.kind = "RandomSubset" ->
             select_random_peers(ids, policy.fraction, policy.min_peers)
      [] policy.kind = "ValidatorPriority" ->
             {select_validators_first(ids, policy.validators_first, capabilities)}
      [] policy.kind = "Geographic" ->
             {select_by_region(ids, policy.prefer_same_region, capabilities)}

BroadcastIdle == [pc |-> "idle"]

NoBroadcast == [op |-> "new"]

\* BroadcastManager::new(config, peers)
InitBroadcast ==
    /\ active_peers = {}
    /\ default_policy \in {AllPeers}
    /\ protocol_policies \in
           {EmptyMap} \cup {[p \in {"Transaction"} |-> policy] :
                                policy \in BroadcastPolicies}
    /\ peer_capabilities = EmptyMap
    /\ recently_broadcast = EmptyMap
    /\ broadcast_call = BroadcastIdle
    /\ broadcast_last = NoBroadcast
    /\ broadcast_history = EmptyMap

\* broadcast_message, up to the selection of the peers (propagation.rs:62-94)
BroadcastBegin ==
    \E p \in BroadcastProtocols, m \in BroadcastMessages :
        LET message_hash == hash_message(m)
            cleaned == RecentMessages_cleanup(recently_broadcast, now)
            policy == MapGetOr(protocol_policies, p, default_policy)
            first == m \notin DOMAIN broadcast_history
            within == /\ m \in DOMAIN broadcast_history
                      /\ now - broadcast_history[m] < MessageTtl
        IN  /\ broadcast_call.pc = "idle"
            /\ recently_broadcast' = cleaned
            /\ IF message_hash \in DOMAIN cleaned
               THEN /\ broadcast_call' = BroadcastIdle
                    /\ broadcast_last' =
                           [op |-> "broadcast",
                            suppressed |-> TRUE, first |-> first,
                            within |-> within, policy |-> policy,
                            peer_ids |-> {}, selected |-> {}, sent |-> {}]
               ELSE \E selected \in
                           SelectedPeers(policy, active_peers, peer_capabilities) :
                        /\ broadcast_call' =
                               [pc |-> "send", message |-> m,
                                message_hash |-> message_hash,
                                first |-> first, within |-> within,
                                policy |-> policy, peer_ids |-> active_peers,
                                selected |-> selected, todo |-> selected,
                                sent |-> {}]
                        /\ broadcast_last' = NoBroadcast
            /\ UNCHANGED <<active_peers, default_policy, protocol_policies,
                           peer_capabilities, broadcast_history, now, notBroadcast>>

\* one turn of the loop over the selected peers (propagation.rs:97-103)
BroadcastSend ==
    \E peer_id \in BroadcastPeers :
        /\ broadcast_call.pc = "send"
        /\ peer_id \in broadcast_call.todo
        /\ broadcast_call' =
               [broadcast_call EXCEPT
                    !.todo = @ \ {peer_id},
                    !.sent = IF peer_id \in active_peers
                             THEN @ \cup {peer_id} ELSE @]
        /\ UNCHANGED <<active_peers, default_policy, protocol_policies,
                       peer_capabilities, recently_broadcast, broadcast_last,
                       broadcast_history, now, notBroadcast>>

\* the fingerprint is recorded and the call returns (propagation.rs:105-108)
BroadcastFinish ==
    /\ broadcast_call.pc = "send"
    /\ broadcast_call.todo = {}
    /\ \E after \in RecentMessages_insert(recently_broadcast, BroadcastCapacity,
                                           broadcast_call.message_hash, now) :
           recently_broadcast' = after
    /\ broadcast_history' =
           MapPut(broadcast_history, broadcast_call.message, now)
    /\ broadcast_last' =
           [op |-> "broadcast",
            suppressed |-> FALSE, first |-> broadcast_call.first,
            within |-> broadcast_call.within, policy |-> broadcast_call.policy,
            peer_ids |-> broadcast_call.peer_ids,
            selected |-> broadcast_call.selected, sent |-> broadcast_call.sent]
    /\ broadcast_call' = BroadcastIdle
    /\ UNCHANGED <<active_peers, default_policy, protocol_policies,
                   peer_capabilities, now, notBroadcast>>

\* update_peer_capabilities (propagation.rs:181-183)
UpdatePeerCapabilities ==
    \E peer_id \in {"pA"}, is_validator \in {TRUE} :
        /\ broadcast_call.pc = "idle"
        /\ peer_id \notin DOMAIN peer_capabilities
        /\ peer_capabilities' =
               MapPut(peer_capabilities, peer_id,
                      [is_validator |-> is_validator, region |-> "None"])
        /\ UNCHANGED <<active_peers, default_policy, protocol_policies,
                       recently_broadcast, broadcast_call, broadcast_last,
                       broadcast_history, now, notBroadcast>>

\* the owner of the shared peer map adds or removes a connection
PeerMapInsert ==
    \E peer_id \in BroadcastPeers :
        /\ peer_id \notin active_peers
        /\ active_peers' = active_peers \cup {peer_id}
        /\ UNCHANGED <<default_policy, protocol_policies, peer_capabilities,
                       recently_broadcast, broadcast_call, broadcast_last,
                       broadcast_history, now, notBroadcast>>

PeerMapRemove ==
    \E peer_id \in BroadcastPeers :
        /\ peer_id \in active_peers
        /\ active_peers' = active_peers \ {peer_id}
        /\ UNCHANGED <<default_policy, protocol_policies, peer_capabilities,
                       recently_broadcast, broadcast_call, broadcast_last,
                       broadcast_history, now, notBroadcast>>

\* time passes
BroadcastTick ==
    /\ now < MaxBroadcastTime
    /\ now' = now + 1
    /\ UNCHANGED <<bcastVars, notBroadcast>>

NextBroadcast ==
    \/ BroadcastBegin
    \/ BroadcastSend
    \/ BroadcastFinish
    \/ UpdatePeerCapabilities
    \/ PeerMapInsert
    \/ PeerMapRemove
    \/ BroadcastTick

\* ---- claims about the broadcast, checked under SpecBroadcast

\* C21: the first broadcast of a message is dispatched to the peers the
\* policy of its protocol selects, and its fingerprint is recorded only
\* after the dispatch; a second broadcast of the same message within
\* message_ttl is dispatched to no peer.
BroadcastDedup ==
    /\ (broadcast_last # NoBroadcast /\ broadcast_last.first) =>
           /\ ~broadcast_last.suppressed
           /\ broadcast_last.selected \in
                  SelectedPeers(broadcast_last.policy, broadcast_last.peer_ids,
                                peer_capabilities)
           /\ broadcast_last.sent \subseteq broadcast_last.selected
    /\ broadcast_call.pc = "send" =>
           broadcast_call.message_hash \notin DOMAIN recently_broadcast
    /\ (broadcast_last # NoBroadcast /\ broadcast_last.within) =>
           /\ broadcast_last.suppressed
           /\ broadcast_last.sent = {}

\* the parts of C21 taken one by one
FirstBroadcastDispatched ==
    (broadcast_last # NoBroadcast /\ broadcast_last.first) =>
        ~broadcast_last.suppressed

RecordedAfterDispatch ==
    broadcast_call.pc = "send" =>
        broadcast_call.message_hash \notin DOMAIN recently_broadcast

SecondBroadcastSuppressed ==
    (broadcast_last # NoBroadcast /\ broadcast_last.within) =>
        broadcast_last.suppressed

\* the least integer not below fraction * n
CeilOfFraction(n, fraction) == (n * fraction + FractionUnit - 1) \div FractionUnit

\* C22: under RandomSubset{fraction, min_peers} with N connected peers the
\* selected peers are distinct connected peers, and their number is
\* max(ceil(fraction * N), min_peers), limited to N.
RandomSubsetSize ==
    (/\ broadcast_last # NoBroadcast
     /\ ~broadcast_last.suppressed
     /\ broadcast_last.policy.kind = "RandomSubset") =>
        LET n == Cardinality(broadcast_last.peer_ids)
            ceil == CeilOfFraction(n, broadcast_last.policy.fraction)
            wanted == IF ceil >= broadcast_last.policy.min_peers
                      THEN ceil ELSE broadcast_last.policy.min_peers
        IN  /\ broadcast_last.selected \subseteq broadcast_last.peer_ids
            /\ Cardinality(broadcast_last.selected) =
                   IF wanted <= n THEN wanted ELSE n

\* the selection is a set of connected peers of the size the code computes
RandomSubsetSizeFloor ==
    (/\ broadcast_last # NoBroadcast
     /\ ~broadcast_last.suppressed
     /\ broadcast_last.policy.kind = "RandomSubset") =>
        /\ broadcast_last.selected \subseteq broadcast_last.peer_ids
        /\ Cardinality(broadcast_last.selected) =
               RandomSubset_count(Cardinality(broadcast_last.peer_ids),
                                  broadcast_last.policy.fraction,
                                  broadcast_last.policy.min_peers)

\* ------------------------------------------------------------------------
\* PeerDiscovery (discovery.rs:8-352)
\* ------------------------------------------------------------------------
MaxDiscoveryTime == 2

\* config.dns_lookup_interval, in ticks of the clock
DnsLookupInterval == 1

\* bootstrap queries the DNS seeds when it has fewer peers than this
BootstrapEnough == 10

PeerSources == {"Bootstrap", "DNSSeed", "PeerExchange", "LocalDiscovery",
                "ManuallyAdded", "Incoming"}

\* a variant of source_priority: the position of the variant in the
\* declaration of PeerSource
source_priority_declared(source) ==
    CASE source = "Bootstrap"      -> 0
      [] source = "DNSSeed"        -> 1
      [] source = "PeerExchange"   -> 2
      [] source = "LocalDiscovery" -> 3
      [] source = "ManuallyAdded"  -> 4
      [] source = "Incoming"       -> 5

source_priority(source) ==
    CASE source = "ManuallyAdded"  -> 5
      [] source = "Incoming"       -> 4
      [] source = "LocalDiscovery" -> 3
      [] source = "Bootstrap"      -> 2
      [] source = "PeerExchange"   -> 1
      [] source = "DNSSeed"        -> 0

LocalPeerRecord(first_seen, last_seen, address, protocol_version, user_agent,
                source) ==
    [first_seen |-> first_seen, last_seen |-> last_seen, address |-> address,
     protocol_version |-> protocol_version, user_agent |-> user_agent,
     source |-> source]

\* add_peer: known_peers after the call, made at time t
add_peer(known, peer_id, addr, protocol_version, user_agent, source, t) ==
    LET record == IF peer_id \in DOMAIN known
                  THEN known[peer_id]
                  ELSE LocalPeerRecord(t, t, addr, protocol_version,
                                       user_agent, source)
    IN  MapPut(known, peer_id,
               [record EXCEPT
                    !.last_seen = t,
                    !.address = IF source # "Incoming" THEN addr ELSE @,
                    !.protocol_version = protocol_version,
                    !.user_agent = user_agent,
                    !.source = IF source_priority(source) > source_priority(@)
                               THEN source ELSE @])

\* the loops of bootstrap and find_more_peers over resolved addresses: one
\* add_peer(generate_temporary_peer_id(addr), addr, 1, "unknown", source) each
RECURSIVE add_peers(_, _, _, _)
add_peers(known, addrs, source, t) ==
    IF addrs = {} THEN known
    ELSE LET addr == CHOOSE a \in addrs : TRUE
         IN  add_peers(add_peer(known, DiscoveredPeerId(addr), addr, 1,
                                "unknown", source, t),
                       addrs \ {addr}, source, t)

\* the trust order of the sources, from the lowest to the highest
TrustOrder == <<"DNSSeed", "PeerExchange", "Bootstrap", "LocalDiscovery",
                "Incoming", "ManuallyAdded">>

TrustRank(source) == CHOOSE i \in 1..Len(TrustOrder) : TrustOrder[i] = source

\* what has been observed of a peer: the first time, the best source
Observe(seen, peer_id, source, t) ==
    IF peer_id \in DOMAIN seen
    THEN MapPut(seen, peer_id,
                [seen[peer_id] EXCEPT
                     !.best = IF TrustRank(source) > TrustRank(@)
                              THEN source ELSE @])
    ELSE MapPut(seen, peer_id, [first |-> t, best |-> source])

RECURSIVE ObserveAll(_, _, _, _)
ObserveAll(seen, addrs, source, t) ==
    IF addrs = {} THEN seen
    ELSE LET addr == CHOOSE a \in addrs : TRUE
         IN  ObserveAll(Observe(seen, DiscoveredPeerId(addr), source, t),
                        addrs \ {addr}, source, t)

\* the addresses the bootstrap nodes and the DNS seeds can resolve to
BootstrapNodes == {AddrA}
SeedAddrs == {AddrA, AddrB}

\* add_peer is called for this peer with these endpoints
ObservedPeer == DiscoveredPeerId(AddrA)
ObservedAddrs == {AddrA, AddrA2}

\* Option<Instant>
NoLookup == [none |-> TRUE]
LookupAt(t) == [none |-> FALSE, at |-> t]
NoDiscoveryCall == [op |-> "new"]

\* PeerDiscovery::new(config)
InitDiscovery ==
    /\ bootstrap_nodes \in {{}, BootstrapNodes}
    /\ dns_seeds \in {{}, {"seed"}}
    /\ known_peers = EmptyMap
    /\ attempted_peers = {}
    /\ banned_peers = {}
    /\ last_dns_lookup = NoLookup
    /\ discovery_last = NoDiscoveryCall
    /\ observed = EmptyMap
    /\ dns_queried_at = NoLookup

\* what the DNS seeds answer: query_dns_seed is Ok with a non-empty list of
\* addresses, or Err
DnsAnswers == IF dns_seeds = {} THEN {{}} ELSE {{}, {AddrB}, SeedAddrs}

\* bootstrap (discovery.rs:84-165); peer_db_path is None
DiscoveryBootstrap ==
    \E answer \in DnsAnswers :
        LET from_nodes == bootstrap_nodes
            known1 == add_peers(known_peers, from_nodes, "Bootstrap", now)
            seen1 == ObserveAll(observed, from_nodes, "Bootstrap", now)
            query == Cardinality(from_nodes) < BootstrapEnough
            from_seeds == IF query THEN answer ELSE {}
        IN  /\ known_peers' = add_peers(known1, from_seeds, "DNSSeed", now)
            /\ observed' = ObserveAll(seen1, from_seeds, "DNSSeed", now)
            /\ last_dns_lookup' = IF query THEN LookupAt(now) ELSE last_dns_lookup
            /\ dns_queried_at' = IF query /\ dns_seeds # {}
                                 THEN LookupAt(now) ELSE dns_queried_at
            /\ discovery_last' =
                   [op |-> "bootstrap", at |-> now,
                    returned |-> from_nodes \cup from_seeds,
                    marked |-> attempted_peers \cup banned_peers,
                    queried |-> query /\ dns_seeds # {},
                    previous_query |-> dns_queried_at]
            /\ UNCHANGED <<bootstrap_nodes, dns_seeds, attempted_peers,
                           banned_peers, now, notDiscovery>>

\* find_more_peers(target_count) (discovery.rs:238-284)
FindMorePeers ==
    \E target_count \in {1, 3}, answer \in DnsAnswers :
        LET should_query_dns ==
                IF ~last_dns_lookup.none
                THEN now - last_dns_lookup.at > DnsLookupInterval
                ELSE TRUE
            query == /\ Cardinality(DOMAIN known_peers) < target_count
                     /\ should_query_dns
            from_seeds == IF query
                          THEN {a \in answer : ~(a \in attempted_peers
                                                   \/ a \in banned_peers)}
                          ELSE {}
        IN  /\ known_peers' = add_peers(known_peers, from_seeds, "DNSSeed", now)
            /\ observed' = ObserveAll(observed, from_seeds, "DNSSeed", now)
            /\ last_dns_lookup' = IF query THEN LookupAt(now) ELSE last_dns_lookup
            /\ dns_queried_at' = IF query /\ dns_seeds # {}
                                 THEN LookupAt(now) ELSE dns_queried_at
            /\ discovery_last' =
                   [op |-> "find_more_peers", at |-> now,
                    returned |-> from_seeds,
                    marked |-> attempted_peers \cup banned_peers,
                    queried |-> query /\ dns_seeds # {},
                    previous_query |-> dns_queried_at]
            /\ UNCHANGED <<bootstrap_nodes, dns_seeds, attempted_peers,
                           banned_peers, now, notDiscovery>>

\* add_peer(peer_id, addr, 1, "unknown", source) (discovery.rs:168-192)
AddPeer ==
    \E addr \in ObservedAddrs, source \in PeerSources :
        /\ known_peers' = add_peer(known_peers, ObservedPeer, addr, 1,
                                   "unknown", source, now)
        /\ observed' = Observe(observed, ObservedPeer, source, now)
        /\ discovery_last' =
               [op |-> "add_peer", at |-> now, source |-> source,
                known |-> ObservedPeer \in DOMAIN known_peers,
                address |-> IF ObservedPeer \in DOMAIN known_peers
                            THEN known_peers[ObservedPeer].address ELSE addr]
        /\ UNCHANGED <<bootstrap_nodes, dns_seeds, attempted_peers,
                       banned_peers, last_dns_lookup, dns_queried_at, now,
                       notDiscovery>>

\* mark_attempted(addr) (discovery.rs:287-289)
MarkAttempted ==
    \E addr \in {AddrA} :
        /\ addr \notin attempted_peers
        /\ attempted_peers' = attempted_peers \cup {addr}
        /\ UNCHANGED <<bootstrap_nodes, dns_seeds, known_peers, banned_peers,
                       last_dns_lookup, discovery_last, observed,
                       dns_queried_at, now, notDiscovery>>

\* mark_banned(addr) (discovery.rs:292-294)
MarkBanned ==
    \E addr \in {AddrB} :
        /\ addr \notin banned_peers
        /\ banned_peers' = banned_peers \cup {addr}
        /\ UNCHANGED <<bootstrap_nodes, dns_seeds, known_peers, attempted_peers,
                       last_dns_lookup, discovery_last, observed,
                       dns_queried_at, now, notDiscovery>>

\* time passes
DiscoveryTick ==
    /\ now < MaxDiscoveryTime
    /\ now' = now + 1
    /\ UNCHANGED <<discVars, notDiscovery>>

NextDiscovery ==
    \/ DiscoveryBootstrap
    \/ FindMorePeers
    \/ AddPeer
    \/ MarkAttempted
    \/ MarkBanned
    \/ DiscoveryTick

\* ---- claims about the discovery, checked under SpecDiscovery

\* C23: after any sequence of observations of a peer through add_peer, the
\* source of its record is the highest-priority source observed so far in
\* the order ManuallyAdded > Incoming > LocalDiscovery > Bootstrap >
\* PeerExchange > DNSSeed, its first_seen is the time of the first
\* observation, and an observation whose source is Incoming leaves the
\* stored endpoint as it was.
SourceUpgradeOnly ==
    /\ DOMAIN known_peers = DOMAIN observed
    /\ \A p \in DOMAIN known_peers :
           /\ known_peers[p].source = observed[p].best
           /\ known_peers[p].first_seen = observed[p].first
    /\ (/\ discovery_last.op = "add_peer"
        /\ discovery_last.source = "Incoming"
        /\ discovery_last.known)
           => known_peers[ObservedPeer].address = discovery_last.address

\* C23's case: a known peer has been observed again with a lower source and
\* with Incoming at another endpoint, at a later time
SourceUpgradeOnlyWitness ==
    /\ discovery_last.op = "add_peer"
    /\ discovery_last.source = "Incoming"
    /\ discovery_last.known
    /\ discovery_last.address = AddrA2
    /\ known_peers[ObservedPeer].source = "ManuallyAdded"
    /\ known_peers[ObservedPeer].first_seen < discovery_last.at

\* C24: after mark_attempted(e) or mark_banned(e) no list returned by a later
\* bootstrap or find_more_peers contains a peer at e.
MarkedEndpointsFiltered ==
    discovery_last.op \in {"bootstrap", "find_more_peers"} =>
        discovery_last.returned \cap discovery_last.marked = {}

\* the part of C24 about find_more_peers
FindMorePeersFilters ==
    discovery_last.op = "find_more_peers" =>
        discovery_last.returned \cap discovery_last.marked = {}

\* C25: two successive queries of the DNS seeds, by bootstrap or by
\* find_more_peers, are at least dns_lookup_interval apart.
DnsLookupSpacing ==
    (/\ discovery_last.op \in {"bootstrap", "find_more_peers"}
     /\ discovery_last.queried
     /\ ~discovery_last.previous_query.none)
        => discovery_last.at - discovery_last.previous_query.at
               >= DnsLookupInterval

\* the part of C25 about find_more_peers
FindMorePeersSpacing ==
    (/\ discovery_last.op = "find_more_peers"
     /\ discovery_last.queried
     /\ ~discovery_last.previous_query.none)
        => discovery_last.at - discovery_last.previous_query.at
               >= DnsLookupInterval

\* ------------------------------------------------------------------------
\* RateLimiter under concurrent callers (security.rs:250-330)
\* ------------------------------------------------------------------------
MaxLimiterTime == 2

\* RateLimiter::new(capacity, refill_rate); the clock ticks in seconds
LimiterCapacity == 3
LimiterRefillRate == 1

LimiterThreads == {"t1", "t2"}

LimiterAmounts == {1, 2}

\* a variant of compare_exchange: a plain store
compare_exchange_blind(actual, current) == TRUE

\* current_tokens.compare_exchange(current, new_value, ..) is Ok(_)
compare_exchange(actual, current) == actual = current

\* (current + new_tokens).min(self.capacity); with new_tokens saturated at
\* u32::MAX (a build without overflow checks, the elapsed time having
\* wrapped) the sum wraps to current - 1 unless current is 0
refill_new_value(current, new_tokens, saturated) ==
    IF saturated
    THEN IF current = 0 THEN LimiterCapacity
         ELSE Min(current - 1, LimiterCapacity)
    ELSE Min(current + new_tokens, LimiterCapacity)

LimiterIdle ==
    [pc |-> "idle", amount |-> 0, now |-> 0, new_tokens |-> 0,
     saturated |-> FALSE, current |-> 0, ret |-> "none"]

LimiterReturn(ret) == [LimiterIdle EXCEPT !.ret = ret]

InitLimiter ==
    /\ bucket_tokens = LimiterCapacity
    /\ bucket_last_refill = 0
    /\ limiter_call = [t \in LimiterThreads |-> LimiterIdle]
    /\ tokens_after_refill = LimiterCapacity
    /\ consumed_since_refill = 0
    /\ credited = 0
    /\ last_refill_high = 0

\* try_consume(amount) is called; refill_if_needed reads the clock
\* (security.rs:270-272, 296)
TryConsume(t) ==
    \E amount \in LimiterAmounts :
        /\ limiter_call[t].pc = "idle"
        /\ limiter_call' =
               [limiter_call EXCEPT
                    ![t] = [LimiterIdle EXCEPT !.pc = "last",
                                               !.amount = amount,
                                               !.now = now]]
        /\ UNCHANGED <<bucket_tokens, bucket_last_refill, tokens_after_refill,
                       consumed_since_refill, credited, last_refill_high,
                       now, notLimiter>>

\* refill_if_needed loads last_refill and computes new_tokens
\* (security.rs:297-309); `now - last` on u64 panics with overflow checks and
\* wraps without them when last is later than the clock value read before
RefillLoad(t) ==
    LET call == limiter_call[t]
        last == bucket_last_refill
        new_tokens == (call.now - last) * LimiterRefillRate
    IN  /\ call.pc = "last"
        /\ limiter_call' =
               [limiter_call EXCEPT ![t] =
                    IF call.now < last
                    THEN IF overflow_checks
                         THEN [call EXCEPT !.pc = "panicked"]
                         ELSE [call EXCEPT !.pc = "current",
                                           !.saturated = TRUE]
                    ELSE IF call.now - last = 0 \/ new_tokens = 0
                         THEN [call EXCEPT !.pc = "consume"]
                         ELSE [call EXCEPT !.pc = "current",
                                           !.new_tokens = new_tokens]]
        /\ UNCHANGED <<bucket_tokens, bucket_last_refill, tokens_after_refill,
                       consumed_since_refill, credited, last_refill_high,
                       now, notLimiter>>

\* refill_if_needed loads current_tokens (security.rs:312)
RefillCurrent(t) ==
    /\ limiter_call[t].pc = "current"
    /\ limiter_call' = [limiter_call EXCEPT ![t].pc = "refill_cas",
                                            ![t].current = bucket_tokens]
    /\ UNCHANGED <<bucket_tokens, bucket_last_refill, tokens_after_refill,
                   consumed_since_refill, credited, last_refill_high,
                   now, notLimiter>>

\* one turn of the loop of refill_if_needed (security.rs:313-328)
RefillCas(t) ==
    LET call == limiter_call[t]
        new_value == refill_new_value(call.current, call.new_tokens,
                                      call.saturated)
    IN  /\ call.pc = "refill_cas"
        /\ IF compare_exchange(bucket_tokens, call.current)
           THEN /\ bucket_tokens' = new_value
                /\ limiter_call' = [limiter_call EXCEPT ![t].pc = "store"]
                /\ tokens_after_refill' = new_value
                /\ consumed_since_refill' = 0
                /\ credited' = credited + (new_value - call.current)
           ELSE /\ limiter_call' =
                       [limiter_call EXCEPT ![t].current = bucket_tokens]
                /\ UNCHANGED <<bucket_tokens, tokens_after_refill,
                               consumed_since_refill, credited>>
        /\ UNCHANGED <<bucket_last_refill, last_refill_high, now, notLimiter>>

\* self.last_refill.store(now) (security.rs:323)
RefillStore(t) ==
    /\ limiter_call[t].pc = "store"
    /\ bucket_last_refill' = limiter_call[t].now
    /\ last_refill_high' = IF limiter_call[t].now > last_refill_high
                           THEN limiter_call[t].now ELSE last_refill_high
    /\ limiter_call' = [limiter_call EXCEPT ![t].pc = "consume"]
    /\ UNCHANGED <<bucket_tokens, tokens_after_refill, consumed_since_refill,
                   credited, now, notLimiter>>

\* try_consume loads current_tokens (security.rs:275)
ConsumeLoad(t) ==
    /\ limiter_call[t].pc = "consume"
    /\ limiter_call' = [limiter_call EXCEPT ![t].pc = "consume_cas",
                                            ![t].current = bucket_tokens]
    /\ UNCHANGED <<bucket_tokens, bucket_last_refill, tokens_after_refill,
                   consumed_since_refill, credited, last_refill_high,
                   now, notLimiter>>

\* one turn of the loop of try_consume (security.rs:276-291)
ConsumeCas(t) ==
    LET call == limiter_call[t]
    IN  /\ call.pc = "consume_cas"
        /\ IF call.current < call.amount
           THEN /\ limiter_call' =
                       [limiter_call EXCEPT ![t] = LimiterReturn("false")]
                /\ UNCHANGED <<bucket_tokens, consumed_since_refill>>
           ELSE IF compare_exchange(bucket_tokens, call.current)
                THEN /\ bucket_tokens' = call.current - call.amount
                     /\ consumed_since_refill' =
                            consumed_since_refill + call.amount
                     /\ limiter_call' =
                            [limiter_call EXCEPT ![t] = LimiterReturn("true")]
                ELSE /\ limiter_call' =
                            [limiter_call EXCEPT ![t].current = bucket_tokens]
                     /\ UNCHANGED <<bucket_tokens, consumed_since_refill>>
        /\ UNCHANGED <<bucket_last_refill, tokens_after_refill, credited,
                       last_refill_high, now, notLimiter>>

\* time passes
LimiterTick ==
    /\ now < MaxLimiterTime
    /\ now' = now + 1
    /\ UNCHANGED <<limVars, notLimiter>>

NextLimiter ==
    \/ \E t \in LimiterThreads :
           \/ TryConsume(t)
           \/ RefillLoad(t)
           \/ RefillCurrent(t)
           \/ RefillCas(t)
           \/ RefillStore(t)
           \/ ConsumeLoad(t)
           \/ ConsumeCas(t)
    \/ LimiterTick

\* ---- claims about the rate limiter, checked under SpecLimiter

\* C26: between two refills, under any interleaving of try_consume calls,
\* the amounts of the calls that returned true sum to at most the tokens
\* that were available, each of them lowered the token count by exactly its
\* amount, and a call that returned false left the count as it was: the
\* tokens left and the tokens consumed add up to the tokens available.
ConsumeAtomic ==
    /\ bucket_tokens + consumed_since_refill = tokens_after_refill
    /\ consumed_since_refill <= tokens_after_refill
    /\ bucket_tokens >= 0

\* C26's case: one call has consumed, another has returned false, and a
\* third turn of the loop holds a stale token count
ConsumeAtomicWitness ==
    /\ consumed_since_refill > 0
    /\ limiter_call["t1"].pc = "consume_cas"
    /\ limiter_call["t1"].current # bucket_tokens
    /\ limiter_call["t1"].current >= limiter_call["t1"].amount
    /\ limiter_call["t2"].ret = "true"

\* C27: under any interleaving of try_consume calls the tokens credited by
\* the lazy refill never exceed refill_rate times the seconds elapsed,
\* last_refill never moves backwards, and the token count never exceeds the
\* capacity.
RefillBounded ==
    /\ credited <= LimiterRefillRate * now
    /\ bucket_last_refill = last_refill_high
    /\ bucket_tokens <= LimiterCapacity

\* the parts of C27 taken one by one
CreditBounded == credited <= LimiterRefillRate * now

LastRefillMonotone == bucket_last_refill = last_refill_high

CapacityRespected == bucket_tokens <= LimiterCapacity

\* ------------------------------------------------------------------------
\* Inbound handshakes of ConnectionManager (connection.rs:101-178)
\* ------------------------------------------------------------------------
MaxHandshakeTime == 2

\* the endpoints that connect and are dialled
HandshakeAddrs == {AddrA, AddrB}

NoInbound == [none |-> TRUE]

\* perform_inbound_handshake(stream, addr, tls_config): the placeholder
\* returns Ok((peer_id, 1, user_agent)) at once
perform_inbound_handshake(addr) == "succeeded"

\* the state of the task start_inbound_handshake spawned for addr last
HandshakeTaskState(addr) ==
    IF addr \in DOMAIN handshake_task THEN handshake_task[addr] ELSE "none"

\* handle_inbound_connection(stream, addr) with the task it spawns: the
\* entry in handshaking is followed by start_inbound_handshake(stream, addr)
InboundConnection(addr) ==
    /\ ConnectionManager_handle_inbound_connection(addr)
    /\ handshake_task' = IF addr \in DOMAIN handshaking' \ DOMAIN handshaking
                         THEN MapPut(handshake_task, addr, "running")
                         ELSE handshake_task
    /\ inbound_last' = [none |-> FALSE, addr |-> addr, ret |-> cm_ret',
                        task_before |-> HandshakeTaskState(addr),
                        dialing |-> addr \in DOMAIN connecting]

\* the spawned task: timeout(handshake_timeout, perform_inbound_handshake)
\* completes, and each arm of the match on its result only logs
InboundHandshakeTask(addr) ==
    /\ HandshakeTaskState(addr) = "running"
    /\ handshake_task' = [handshake_task EXCEPT
                              ![addr] = perform_inbound_handshake(addr)]
    /\ UNCHANGED inbound_last

\* no inbound connection was handled yet
InitHandshakes ==
    /\ handshake_task = EmptyMap
    /\ inbound_last = NoInbound

HandleInboundConnection ==
    \E addr \in HandshakeAddrs :
        /\ InboundConnection(addr)
        /\ UNCHANGED <<now, notHandshake>>

InboundHandshakeEnds ==
    \E addr \in HandshakeAddrs :
        /\ InboundHandshakeTask(addr)
        /\ UNCHANGED <<now, connVars, notHandshake>>

EstablishOutbound ==
    \E addr \in HandshakeAddrs :
        /\ ConnectionManager_establish_begin(addr, "caller")
        /\ UNCHANGED <<now, notConn>>

HandshakeTick ==
    /\ now < MaxHandshakeTime
    /\ now' = now + 1
    /\ UNCHANGED <<connVars, notConn>>

NextHandshake ==
    \/ HandleInboundConnection
    \/ InboundHandshakeEnds
    \/ EstablishOutbound
    \/ EstablishDial
    \/ EstablishFinish
    \/ CleanUpStale
    \/ HandshakeTick

\* ---- claims about pending connections, checked under SpecHandshake

\* establish_outbound_connection has removed its entry from connecting
\* whenever no call of it is in progress
OutboundPendingRemoved == cm_call = CallIdle => connecting = EmptyMap

\* the endpoint of a handshake task that is over is not in handshaking
EndedHandshakesLeave ==
    \A addr \in DOMAIN handshake_task :
        handshake_task[addr] # "running" => addr \notin DOMAIN handshaking

\* handle_inbound_connection and the handshake task leave the per-IP
\* counters as they were
InboundCountersUntouched ==
    [][(handshake_task' # handshake_task \/ inbound_last' # inbound_last)
           => cm_ip_connections' = cm_ip_connections]_vars

\* an inbound connection is refused as already connecting only while a dial
\* to, or a handshake with, its endpoint is in progress
RefusedOnlyWhilePending ==
    (/\ ~inbound_last.none
     /\ inbound_last.ret.kind = "Err"
     /\ inbound_last.ret.msg = "Already connecting to this address")
        => \/ inbound_last.dialing
           \/ inbound_last.task_before = "running"

\* C28: every outbound dial is removed from connecting on every exit path of
\* establish_outbound_connection, and every inbound endpoint leaves
\* handshaking when its handshake is over, the per-IP counters being what
\* they were, so that a later inbound connection from the same endpoint is
\* not refused as already connecting.
PendingEntriesLeave ==
    /\ [](OutboundPendingRemoved /\ EndedHandshakesLeave
              /\ RefusedOnlyWhilePending)
    /\ InboundCountersUntouched

\* a second inbound connection from an endpoint whose handshake is over was
\* refused as already connecting
RefusedAfterHandshake ==
    /\ ~inbound_last.none
    /\ inbound_last.ret.kind = "Err"
    /\ inbound_last.ret.msg = "Already connecting to this address"
    /\ inbound_last.task_before = "succeeded"

\* ------------------------------------------------------------------------
\* The running service: its connections over time (service.rs:336-479)
\* ------------------------------------------------------------------------
MaxRunningTime == 3

\* the endpoints the listener accepts connections from
InboundAddrs == {AddrB}

NoMaintenance == [none |-> TRUE]

\* the service is constructed; no connection is stored and no tick has run
InitRunning ==
    /\ connected_since = EmptyMap
    /\ maintained_at = NoMaintenance

\* connect_to_peer: self.peers.write().await.insert(connection.peer_id,
\* peer_info); the Connection, whose last_activity is the time of the
\* handshake, is dropped when connect_to_peer returns
StoreConnectionAt ==
    LET t == StartCaller
        c == task[t].connection
    IN  /\ task[t].pc = "store"
        /\ ~peers_read_held
        /\ peers' = MapPut(peers, c.peer_id, PeerInfo(c.peer_id, c.address))
        /\ task' = [task EXCEPT ![t].pc = "notify"]
        /\ connected_since' = MapPut(connected_since, c.peer_id, now)
        /\ UNCHANGED <<status, peers_read_held, requests, stop_call, connVars,
                       sybilVars, taskVars, lifeVars, hsVars, maintained_at,
                       now, notRunning>>

\* handle_incoming_connections: the accepted socket is handed to
\* connection_manager.write().await.handle_inbound_connection(stream, addr)
AcceptInbound ==
    \E addr \in InboundAddrs :
        /\ background["listener"] = "running"
        /\ InboundConnection(addr)
        /\ UNCHANGED <<sybilVars, serviceVars, taskVars, lifeVars, runVars,
                       now, notRunning>>

\* the maintenance task's interval.tick(): perform_maintenance(..), whose body
\* is empty
PerformMaintenance ==
    /\ background["maintenance"] = "running"
    /\ maintained_at' = LookupAt(now)
    /\ UNCHANGED <<connVars, sybilVars, serviceVars, taskVars, lifeVars,
                   hsVars, connected_since, now, notRunning>>

RunningTick ==
    /\ now < MaxRunningTime
    /\ now' = now + 1
    /\ UNCHANGED <<connVars, sybilVars, serviceVars, taskVars, lifeVars,
                   hsVars, runVars, notRunning>>

NextRunning ==
    \/ StartBegin
    \/ StartListeners
    \/ StartNat
    \/ Bootstrap(StartCaller)
    \/ StorePeer(StartCaller)
    \/ CountPeers(StartCaller)
    \/ BootstrapReturn(StartCaller)
    \/ Admit(StartCaller)
    \/ ConnectBegin(StartCaller)
    \/ ConnectDial(StartCaller)
    \/ ConnectHandshake(StartCaller)
    \/ RecordConnection(StartCaller)
    \/ StoreConnectionAt
    \/ NotifyPeerDiscovered(StartCaller)
    \/ StartMaintenance
    \/ StartMessageHandler
    \/ StartHealthChecker
    \/ StartFinish
    \/ AcceptInbound
    \/ InboundHandshakeEnds
    \/ PerformMaintenance
    \/ HandlerRecv
    \/ HandlerApply
    \/ RunningTick

\* ---- claims about the running service, checked under SpecRunning

\* a Disconnect(peer, Timeout) command is waiting in the request channel
TimeoutDisconnectQueued(peer_id) ==
    \E i \in 1..Len(requests) :
        /\ requests[i].kind = "Disconnect"
        /\ requests[i].peer_id = peer_id
        /\ requests[i].reason = "Timeout"

\* the peers that were idle for more than idle_timeout when the maintenance
\* tick ran last
IdleAtMaintenance ==
    IF maintained_at.none
    THEN {}
    ELSE {peer_id \in DOMAIN connected_since :
              maintained_at.at - connected_since[peer_id] > IdleTimeout}

EstablishedInbound ==
    {addr \in DOMAIN handshake_task : handshake_task[addr] = "succeeded"}

\* the connections established with ip: the outbound ones connect_to_peer
\* has stored and the inbound ones
EstablishedWith(ip) ==
    Cardinality({peer_id \in DOMAIN connected_since :
                     peers[peer_id].address.ip = ip})
        + Cardinality({addr \in EstablishedInbound : addr.ip = ip})

\* an accepted inbound socket proceeds to its handshake only if
\* is_connection_allowed admits its address
InboundAdmitted ==
    [][\A addr \in DOMAIN handshaking' \ DOMAIN handshaking :
           SybilProtection_is_connection_allowed(addr)]_vars

\* an outbound dial starts only if is_connection_allowed admits its address
OutboundAdmitted ==
    [][\A addr \in DOMAIN connecting' \ DOMAIN connecting :
           SybilProtection_is_connection_allowed(addr)]_vars

\* the established connections with each address are counted by
\* record_connection
EstablishedAreCounted ==
    \A ip \in IpAddrs :
        EstablishedWith(ip) <= MapGetOr(connection_counts, ip, 0)

\* the outbound connections connect_to_peer has stored are counted
OutboundAreCounted ==
    \A ip \in IpAddrs :
        Cardinality({peer_id \in DOMAIN connected_since :
                         peers[peer_id].address.ip = ip})
            <= MapGetOr(connection_counts, ip, 0)

\* C30: every connection attempt, outbound or inbound, passes
\* is_connection_allowed before it proceeds, and every established connection
\* is recorded with record_connection: none is established without being
\* counted.
AdmittedAndCounted ==
    /\ InboundAdmitted
    /\ OutboundAdmitted
    /\ []EstablishedAreCounted

\* an inbound connection went on to its handshake although the cap of its
\* subnet was reached
AdmittedOverCap ==
    /\ ~inbound_last.none
    /\ inbound_last.ret.kind = "Ok"
    /\ ~SybilProtection_is_connection_allowed(inbound_last.addr)

\* ------------------------------------------------------------------------
\* NAT traversal in start (service.rs:227-240, nat.rs:45-99)
\* ------------------------------------------------------------------------
\* start has returned after its listener was bound
StartReturnedAfterBind ==
    /\ start_call.pc = "returned"
    /\ ~(/\ start_call.ret.kind = "Err"
         /\ start_call.ret.msg = "Failed to bind to any listen addresses")

\* C31: NAT discovery and UPnP port mapping are best-effort: whatever
\* discover_nat_type and try_upnp_port_mapping return, a start whose listener
\* is bound bootstraps the peers, launches the maintenance task and the
\* message handler, and returns Ok having set the status to Running.
NatBestEffort ==
    StartReturnedAfterBind =>
        /\ start_call.ret.kind = "Ok"
        /\ task[StartCaller].pc = "returned"
        /\ background["maintenance"] # "none"
        /\ background["handler"] # "none"

\* without UPnP in the configuration start goes all the way
StartCompletesWithoutUpnp ==
    (StartReturnedAfterBind /\ ~enable_upnp) =>
        /\ start_call.ret.kind = "Ok"
        /\ task[StartCaller].pc = "returned"
        /\ background["maintenance"] # "none"
        /\ background["handler"] # "none"

\* start has returned the error of try_upnp_port_mapping
StartFailedOnUpnp ==
    /\ start_call.pc = "returned"
    /\ start_call.ret.kind = "Err"
    /\ start_call.ret.msg = "UPnP is disabled"
    /\ status = "Starting"

\* ------------------------------------------------------------------------
\* The negotiated versions and the configured minimum
\* (protocol_version.rs:88-123)
\* ------------------------------------------------------------------------
\* C32: no version that negotiate returns for a protocol is below the
\* minimum configured for that protocol, compared by major, then minor, then
\* patch.
NegotiatedNotBelowMinimum ==
    negotiated # NoNegotiation =>
        \A p \in DOMAIN negotiated.protocols :
            p \in DOMAIN min_compatible_version =>
                ~VersionBelow(negotiated.protocols[p],
                              min_compatible_version[p])

\* with the minimum at the base version 1.0.0, as NetworkService::new
\* configures it, no negotiated version of PeerDiscovery is below it
NegotiatedNotBelowBase ==
    negotiated # NoNegotiation =>
        ("PeerDiscovery" \in DOMAIN negotiated.protocols
             => ~VersionBelow(negotiated.protocols["PeerDiscovery"],
                              BaseVersion))

\* a protocol was negotiated at a version below its configured minimum
NegotiatedBelowMinimum ==
    /\ negotiated # NoNegotiation
    /\ \E p \in DOMAIN negotiated.protocols :
           /\ p \in DOMAIN min_compatible_version
           /\ VersionBelow(negotiated.protocols[p], min_compatible_version[p])

\* ------------------------------------------------------------------------
\* The ban duration as the score grows (security.rs:500-537)
\* ------------------------------------------------------------------------
MaxBanScore == 330

\* the width of the u64 in which 2_u64.pow(score / 5) - 1 is computed
U64Bits == 64

\* a score 2^(score / 5) - 1 is above 24 * 7 from: 2^8 - 1 = 255
SaturatingExponent == 8

ViolationTypes ==
    {"RateLimit", "ProtocolViolation", "InvalidMessage", "InvalidBlock",
     "InvalidTransaction"}

NoDuration == [none |-> TRUE]

\* (2_u64.pow(score / 5) - 1).min(24 * 7), then Duration::from_secs(hours *
\* 3600). From the exponent 64 on the power does not fit a u64: with overflow
\* checks the multiplication in pow panics; without them the power wraps to
\* 0, the subtraction wraps to u64::MAX, and the minimum is 24 * 7.
calculate_ban_duration(score, checks) ==
    LET exponent == score \div 5
    IN  IF exponent >= U64Bits
        THEN IF checks
             THEN [none |-> FALSE, kind |-> "Panic", secs |-> 0,
                   wrapped |-> TRUE]
             ELSE [none |-> FALSE, kind |-> "Ok",
                   secs |-> MaxBanHours * SecondsPerHour, wrapped |-> TRUE]
        ELSE [none |-> FALSE, kind |-> "Ok",
              secs |-> (IF exponent >= SaturatingExponent
                        THEN MaxBanHours
                        ELSE Min(Pow2(exponent) - 1, MaxBanHours))
                           * SecondsPerHour,
              wrapped |-> FALSE]

\* DoSProtection::new: no score, no ban
InitBan ==
    /\ ban_score = 0
    /\ ban_duration = NoDuration

\* record_violation(peer_id, violation) for a peer whose address is known:
\* the score grows by the penalty points, and from ban_threshold on ban_peer
\* computes the duration of the ban
BanRecordViolation ==
    \E violation \in ViolationTypes :
        LET score == ban_score + penalty_points(violation)
        IN  /\ score <= MaxBanScore
            /\ ~(~ban_duration.none /\ ban_duration.kind = "Panic")
            /\ ban_score' = score
            /\ ban_duration' = IF score >= BanThreshold
                               THEN calculate_ban_duration(score,
                                                           overflow_checks)
                               ELSE ban_duration
            /\ UNCHANGED <<codecVars, notBan>>

NextBan == BanRecordViolation

\* ---- claims about the ban duration, checked under SpecBan

\* min(2^(s div 5) - 1, 168) hours, in seconds
ExpectedBanSeconds(s) ==
    (IF s \div 5 >= SaturatingExponent
     THEN MaxBanHours
     ELSE Min(Pow2(s \div 5) - 1, MaxBanHours)) * SecondsPerHour

\* the duration computed last is the expected one, computed without overflow
BanDurationExact ==
    ~ban_duration.none =>
        /\ ban_duration.kind = "Ok"
        /\ ~ban_duration.wrapped
        /\ ban_duration.secs = ExpectedBanSeconds(ban_score)

\* the duration does not decrease as the score grows
BanDurationMonotone ==
    [][(/\ ~ban_duration.none
        /\ ban_duration.kind = "Ok"
        /\ ban_duration'.kind = "Ok")
           => ban_duration'.secs >= ban_duration.secs]_vars

BanDurationExactBelowOverflow ==
    (~ban_duration.none /\ ban_score < 5 * U64Bits) =>
        /\ ban_duration.kind = "Ok"
        /\ ~ban_duration.wrapped
        /\ ban_duration.secs = ExpectedBanSeconds(ban_score)

\* in a build without overflow checks the value returned is the expected one
\* at every score
BanDurationValueWhenWrapping ==
    (~ban_duration.none /\ ~overflow_checks) =>
        /\ ban_duration.kind = "Ok"
        /\ ban_duration.secs = ExpectedBanSeconds(ban_score)

\* calculate_ban_duration has panicked
BanDurationPanicked ==
    /\ ~ban_duration.none
    /\ ban_duration.kind = "Panic"

\* ------------------------------------------------------------------------
\* Subnet buckets of SybilProtection (security.rs:157-240)
\* ------------------------------------------------------------------------
Ipv6Addr(octets) == [family |-> "V6", octets |-> octets]

\* 2001:db8::1 and 2001:db8::2, two hosts of 2001:db8::/48, and
\* 2001:db8:1::1 of 2001:db8:1::/48
Ip6A == Ipv6Addr(<<32, 1, 13, 184, 0, 0, 0, 0, 0, 0, 0, 0, 0, 0, 0, 1>>)
Ip6B == Ipv6Addr(<<32, 1, 13, 184, 0, 0, 0, 0, 0, 0, 0, 0, 0, 0, 0, 2>>)
Ip6C == Ipv6Addr(<<32, 1, 13, 184, 0, 1, 0, 0, 0, 0, 0, 0, 0, 0, 0, 1>>)

SubnetIps == {IpA, IpB, IpC, Ip6A, Ip6B, Ip6C}

NoAdmission == [none |-> TRUE]

\* no connection was asked for yet
InitSubnet ==
    /\ subnet_connected = EmptyMap
    /\ subnet_last = NoAdmission

\* connect_to_peer's use of SybilProtection for an address of ip:
\* is_connection_allowed(addr), then record_connection(addr)
SubnetConnect ==
    \E ip \in SubnetIps :
        LET addr == SocketAddr(ip, Port)
            allowed == SybilProtection_is_connection_allowed(addr)
        IN  /\ subnet_last' = [none |-> FALSE, ip |-> ip, allowed |-> allowed]
            /\ IF allowed
               THEN /\ SybilProtection_record_connection(addr)
                    /\ subnet_connected' = CounterIncrement(subnet_connected, ip)
               ELSE UNCHANGED <<sybilVars, subnet_connected>>
            /\ UNCHANGED notSubnet

\* stop's record_disconnection(addr) for a connected address
SubnetDisconnect ==
    \E ip \in DOMAIN subnet_connected :
        /\ SybilProtection_record_disconnection(SocketAddr(ip, Port))
        /\ subnet_connected' = CounterDecrementRemove(subnet_connected, ip)
        /\ UNCHANGED <<subnet_last, notSubnet>>

NextSubnet ==
    \/ SubnetConnect
    \/ SubnetDisconnect

\* ---- claims about the subnet buckets, checked under SpecSubnet

\* the octets of the prefix: 24 bits of an IPv4 address, 48 of an IPv6 one
PrefixOctets(ip) == IF ip.family = "V4" THEN 3 ELSE 6

\* a and b are of one family and share their first 24, or 48, bits
SharePrefix(a, b) ==
    /\ a.family = b.family
    /\ SubSeq(a.octets, 1, PrefixOctets(a)) = SubSeq(b.octets, 1, PrefixOctets(b))

\* the connections recorded with addresses that share the prefix of ip
ConnectedSharingPrefix(ip) ==
    SumOver(subnet_connected,
            {other \in DOMAIN subnet_connected : SharePrefix(ip, other)})

BucketCount(ip) == MapGetOr(ip_address_groups, get_subnet_for_ip(ip), 0)

\* C34: two IPv4 addresses that share their first 24 bits, and two IPv6
\* addresses that share their first 48 bits, are in the same subnet bucket:
\* the bucket of an address counts the connections with every address that
\* shares its prefix, so that they meet the same max_per_subnet cap.
SubnetBucketShared ==
    /\ \A a \in SubnetIps, b \in DOMAIN subnet_connected :
           SharePrefix(a, b) => get_subnet_for_ip(a) = get_subnet_for_ip(b)
    /\ \A ip \in SubnetIps : BucketCount(ip) = ConnectedSharingPrefix(ip)
    /\ \A ip \in SubnetIps : ConnectedSharingPrefix(ip) <= MaxInboundPerSubnet

\* the same for the IPv4 addresses alone
SubnetBucketSharedV4 ==
    \A ip \in {IpA, IpB, IpC} :
        /\ \A b \in DOMAIN subnet_connected :
               SharePrefix(ip, b) => get_subnet_for_ip(ip) = get_subnet_for_ip(b)
        /\ BucketCount(ip) = ConnectedSharingPrefix(ip)
        /\ ConnectedSharingPrefix(ip) <= MaxInboundPerSubnet

\* a connection with a second host of a full IPv4 /24 was refused
SecondHostOfV4SubnetRefused ==
    /\ ~subnet_last.none
    /\ subnet_last.ip = IpB
    /\ ~subnet_last.allowed
    /\ IpA \in DOMAIN subnet_connected

\* two hosts of one IPv6 /48 are connected with the cap per subnet at one
TwoHostsOfV6SubnetAdmitted ==
    /\ Ip6A \in DOMAIN subnet_connected
    /\ Ip6B \in DOMAIN subnet_connected

\* ------------------------------------------------------------------------
\* GossipManager and its LruCache (propagation.rs:215-392)
\* ------------------------------------------------------------------------
MaxFanout == 2
MaxRounds == 2
MaxCacheSize == 2

GossipPeers == {"pA", "pB", "pC"}

GossipMessages == {<<1>>, <<2>>, <<3>>}

\* hash_bytes(data): the 64-bit DefaultHasher value of the bytes in the
\* first 8 octets of the fingerprint, the other 24 being zero; the hasher
\* separates the messages of GossipMessages
hash_bytes(data) == [hasher |-> "DefaultHasher", of |-> data, rest |-> 0]

NoGossip == [none |-> TRUE]

\* LruCache::put(key, value): the test of a full cache with a new key has
\* an empty body, and the insert follows in every case
LruCache_put(items, max_size, key, value) ==
    IF Cardinality(DOMAIN items) >= max_size /\ key \notin DOMAIN items
    THEN MapPut(items, key, value)
    ELSE MapPut(items, key, value)

\* peer_message_tracking.entry(peer).or_insert_with(HashSet::new).insert(hash)
TrackPeerMessage(tracking, peer, hash) ==
    MapPut(tracking, peer, MapGetOr(tracking, peer, {}) \cup {hash})

\* select_gossip_peers(message_hash, count): the peers of
\* peer_message_tracking whose set lacks the hash, shuffled and truncated to
\* count when there are more; the set of the possible results
select_gossip_peers(tracking, message_hash, count) ==
    LET candidate_peers ==
            {peer \in DOMAIN tracking : message_hash \notin tracking[peer]}
    IN  IF Cardinality(candidate_peers) > count
        THEN {chosen \in SUBSET candidate_peers : Cardinality(chosen) = count}
        ELSE {candidate_peers}

\* schedule_gossip_propagation(message_hash, rounds): nothing for rounds = 0
\* or a message missing from the cache; otherwise one selection, whose peers
\* are logged and left unmarked; the possible sequences of the rounds' targets
schedule_gossip_propagation(cache, tracking, fanout, message_hash, rounds) ==
    IF rounds = 0 \/ message_hash \notin DOMAIN cache
    THEN {<<>>}
    ELSE {<<selected>> :
             selected \in select_gossip_peers(tracking, message_hash, fanout)}

\* GossipManager::new(factors, message_ttl, cache_size, peers, local_peer_id)
InitGossip ==
    /\ gossip_factors \in [fanout : 1..MaxFanout, rounds : 0..MaxRounds]
    /\ gossip_cache_size \in 1..MaxCacheSize
    /\ gossip_active_peers \in {GossipPeers, {"pA", "pB"}}
    /\ gossip_known_messages = {}
    /\ gossip_message_cache = EmptyMap
    /\ peer_message_tracking = EmptyMap
    /\ gossip_last = NoGossip

\* process_incoming_gossip(from_peer, message), the calls being within
\* message_ttl of one another and fewer than the 1000 known_messages keeps
ProcessIncomingGossip ==
    \E from_peer \in GossipPeers, gossip \in GossipMessages :
        LET message_hash == hash_bytes(gossip)
            tracked == TrackPeerMessage(peer_message_tracking, from_peer,
                                        message_hash)
        IN  IF message_hash \in gossip_known_messages
            THEN /\ peer_message_tracking' = tracked
                 /\ gossip_last' = [none |-> FALSE, from_peer |-> from_peer,
                                    hash |-> message_hash, ret |-> Ok(FALSE),
                                    rounds |-> <<>>,
                                    tracking_before |-> peer_message_tracking]
                 /\ UNCHANGED <<gossip_known_messages, gossip_message_cache>>
                 /\ UNCHANGED <<gossip_factors, gossip_cache_size,
                                gossip_active_peers, notGossip>>
            ELSE LET cache == LruCache_put(gossip_message_cache,
                                           gossip_cache_size, message_hash,
                                           gossip)
                 IN  \E rounds \in schedule_gossip_propagation(cache, tracked,
                                       gossip_factors.fanout, message_hash,
                                       gossip_factors.rounds) :
                         /\ gossip_known_messages' =
                                gossip_known_messages \cup {message_hash}
                         /\ gossip_message_cache' = cache
                         /\ peer_message_tracking' = tracked
                         /\ gossip_last' =
                                [none |-> FALSE, from_peer |-> from_peer,
                                 hash |-> message_hash, ret |-> Ok(TRUE),
                                 rounds |-> rounds,
                                 tracking_before |-> peer_message_tracking]
                         /\ UNCHANGED <<gossip_factors, gossip_cache_size,
                                        gossip_active_peers, notGossip>>

NextGossip ==
    \/ ProcessIncomingGossip

\* ---- claims about gossip, checked under SpecGossip

\* the last call was of a message not known before
GossipWasNew == ~gossip_last.none /\ gossip_last.ret.msg

\* the peers marked, after the last call, as holding its fingerprint
MarkedHolding ==
    {peer \in DOMAIN peer_message_tracking :
         gossip_last.hash \in peer_message_tracking[peer]}

\* the peers marked, before the last call, as holding its fingerprint
MarkedHoldingBefore ==
    {peer \in DOMAIN gossip_last.tracking_before :
         gossip_last.hash \in gossip_last.tracking_before[peer]}

\* each round of the last call targets at most fanout peers, none of them
\* the sender or marked as holding the fingerprint
RoundsTargetUnmarked ==
    GossipWasNew =>
        \A i \in DOMAIN gossip_last.rounds :
            /\ Cardinality(gossip_last.rounds[i]) <= gossip_factors.fanout
            /\ gossip_last.from_peer \notin gossip_last.rounds[i]
            /\ gossip_last.rounds[i] \cap MarkedHoldingBefore = {}

\* the last call ran the configured number of rounds
RoundsAsConfigured ==
    GossipWasNew => Len(gossip_last.rounds) = gossip_factors.rounds

\* a peer of the active peers that was pushed the message is marked as
\* holding it
PushedPeersMarked ==
    GossipWasNew =>
        \A i \in DOMAIN gossip_last.rounds :
            (gossip_last.rounds[i] \cap gossip_active_peers) \subseteq MarkedHolding

\* no peer is a target of two rounds of the last call
RoundsDisjoint ==
    GossipWasNew =>
        \A i, j \in DOMAIN gossip_last.rounds :
            i # j => gossip_last.rounds[i] \cap gossip_last.rounds[j] = {}

\* C35: for a newly received gossip message, propagation runs the configured
\* number of rounds, each round targets at most fanout peers none of which
\* is marked as holding the fingerprint (the sender included), and a peer
\* that was pushed the message in one round is marked as holding it and is
\* not selected again in a later round.
GossipRoundsRun ==
    /\ RoundsAsConfigured
    /\ RoundsTargetUnmarked
    /\ PushedPeersMarked
    /\ RoundsDisjoint

\* a new message was processed under two configured rounds and one selection
\* was made
OneRoundOfTwo ==
    /\ GossipWasNew
    /\ gossip_factors.rounds = 2
    /\ Len(gossip_last.rounds) = 1

\* an active peer was selected for the message and is not marked as holding it
PushedPeerUnmarked ==
    /\ GossipWasNew
    /\ \E i \in DOMAIN gossip_last.rounds :
           (gossip_last.rounds[i] \cap gossip_active_peers) \ MarkedHolding # {}

\* C38: after any sequence of process_incoming_gossip calls the message
\* cache holds at most cache_size messages.
GossipCacheBounded ==
    Cardinality(DOMAIN gossip_message_cache) <= gossip_cache_size

\* every message known to the manager is in the cache, whatever its size
GossipCacheKeepsAll ==
    DOMAIN gossip_message_cache = gossip_known_messages

\* the cache holds more messages than cache_size
GossipCacheOverfull ==
    Cardinality(DOMAIN gossip_message_cache) > gossip_cache_size

\* ---- claims about the fingerprints of broadcast messages, checked under
\* ---- SpecBroadcast

\* m with another version byte, and with another flags byte
WithVersion(m, version) == [m EXCEPT !.header.version = version]
WithFlags(m, flags) == [m EXCEPT !.header.flags = flags]

\* the messages a caller can submit next: those of BroadcastMessages, and
\* the same with version 2 or flags 1
SubmittableMessages ==
    BroadcastMessages
        \cup {WithVersion(m, 2) : m \in BroadcastMessages}
        \cup {WithFlags(m, 1) : m \in BroadcastMessages}

\* broadcast_message(protocol, m) called now would return at the test of
\* recently_broadcast (propagation.rs:66-68)
WouldBeSuppressed(m) ==
    hash_message(m) \in DOMAIN RecentMessages_cleanup(recently_broadcast, now)

\* C37: broadcast_message never suppresses a message because a different
\* message was broadcast earlier: a message that differs from every message
\* broadcast so far in payload bytes, payload length, version or flags is
\* not treated as a duplicate.
DifferentMessagesKeptApart ==
    \A m \in SubmittableMessages :
        WouldBeSuppressed(m) => m \in DOMAIN broadcast_history

\* a message with a longer payload than any broadcast so far would be
\* suppressed
LongerPayloadSuppressed ==
    \E m \in BroadcastMessages :
        /\ WouldBeSuppressed(m)
        /\ \A sent \in DOMAIN broadcast_history : Len(sent.payload) < Len(m.payload)

\* a message whose flags differ from those of every message broadcast so
\* far would be suppressed
OtherFlagsSuppressed ==
    \E m \in BroadcastMessages :
        /\ WouldBeSuppressed(WithFlags(m, 1))
        /\ \A sent \in DOMAIN broadcast_history : sent.header.flags = 0

\* ------------------------------------------------------------------------
\* Duplicate suppression of BlockPropagator (block_propagation.rs:131-178)
\* ------------------------------------------------------------------------
\* the blocks submitted: each header with no transaction or with one
SubmittedBlocks == {block \in Blocks : Len(block.transactions) <= 1}

NoSubmission == [none |-> TRUE]

\* no block was submitted yet
InitSeen ==
    /\ blocks_submitted = {}
    /\ submission_last = NoSubmission

\* propagate_block(block, peer_preferences) for a submitted block; the
\* block is announced when the call builds its announcements
SubmitBlock ==
    \E block \in SubmittedBlocks :
        /\ BlockPropagator_propagate_block(block)
        /\ blocks_submitted' = blocks_submitted \cup {block}
        /\ submission_last' =
               [none |-> FALSE, block |-> block,
                repeated |-> block \in blocks_submitted,
                announced |-> Block_hash(block) \notin seen_blocks]
        /\ UNCHANGED <<mempool, compact_blocks_enabled,
                       mempool_prevalence_threshold, reconstructed, notSeen>>

NextSeen ==
    \/ SubmitBlock

\* ---- claims about the duplicate suppression, checked under SpecSeen

\* a repeated submission is dropped
RepeatedBlockDropped ==
    (~submission_last.none /\ submission_last.repeated)
        => ~submission_last.announced

\* C39: propagate_block suppresses a block only if that same block was
\* propagated before: each distinct block is announced the first time it is
\* submitted, and only a repeated submission of a block is dropped.
OnlyRepeatedBlocksDropped ==
    ~submission_last.none =>
        (submission_last.announced <=> ~submission_last.repeated)

\* a block was dropped at its first submission
FirstSubmissionDropped ==
    /\ ~submission_last.none
    /\ ~submission_last.repeated
    /\ ~submission_last.announced

\* at most one block is ever announced: seen_blocks never holds more than
\* the one hash
OneHashSeen == Cardinality(seen_blocks) <= 1

\* ------------------------------------------------------------------------
\* RateLimiter::refill_if_needed at the widths of its integers
\* (security.rs:295-329), for the TotalBandwidth limiter of DoSProtection
\* ------------------------------------------------------------------------
\* RateLimiter::new(1_000_000, 500_000)
BandwidthCapacity == 1000000
BandwidthRefillRate == 500000

\* elapsed_seconds < 0.01 is "too soon to refill": fewer than 10 ms
MinRefillMs == 10

\* the least elapsed time, in ms, at which elapsed_seconds * 500_000.0 is
\* 2^32 or more, so that the cast to u32 gives u32::MAX
SaturatingElapsedMs == 8589935

\* the clock advances by short steps of at most this many ms in all, and by
\* one long idle time
MaxShortElapsedMs == 20

RefillDelays == {5, MinRefillMs, SaturatingElapsedMs}

RefillAmounts == {BandwidthRefillRate, BandwidthCapacity}

NoRefill == [none |-> TRUE]

\* refill_if_needed on one thread, with current tokens and last_refill = last,
\* the clock reading t (ms): [kind, tokens, last]. `t - last` and
\* `current + new_tokens` panic on overflow in a build with overflow checks and
\* wrap in one without; a wrapped elapsed time is above SaturatingElapsedMs.
\* For the elapsed times below SaturatingElapsedMs that occur here (multiples
\* of 5 up to MaxShortElapsedMs) the f64 product is the exact integer.
RateLimiter_refill(current, last, t, checks) ==
    LET unchanged == [kind |-> "Ok", tokens |-> current, last |-> last]
        panic == [kind |-> "Panic", tokens |-> current, last |-> last]
        underflow == t < last
        elapsed_ms == t - last
        saturated == underflow \/ elapsed_ms >= SaturatingElapsedMs
        new_tokens == (elapsed_ms * BandwidthRefillRate) \div 1000
    IN  IF underflow /\ checks THEN panic
        ELSE IF ~saturated /\ elapsed_ms < MinRefillMs THEN unchanged
        ELSE IF ~saturated /\ new_tokens = 0 THEN unchanged
        ELSE IF saturated
        THEN IF current = 0
             THEN [kind |-> "Ok", tokens |-> BandwidthCapacity, last |-> t]
             ELSE IF checks THEN panic
             ELSE [kind |-> "Ok", tokens |-> Min(current - 1, BandwidthCapacity),
                   last |-> t]
        ELSE [kind |-> "Ok",
              tokens |-> Min(current + new_tokens, BandwidthCapacity),
              last |-> t]

\* RateLimiter::new at time 0
InitRefill ==
    /\ refill_tokens = BandwidthCapacity
    /\ refill_last = 0
    /\ refill_clock = 0
    /\ refill_result = NoRefill

\* the ms the clock has advanced in short steps
ShortElapsed ==
    IF refill_clock >= SaturatingElapsedMs
    THEN refill_clock - SaturatingElapsedMs ELSE refill_clock

\* time passes: a short step, or one long idle time
RefillAdvance ==
    \E d \in RefillDelays :
        /\ IF d = SaturatingElapsedMs
           THEN refill_clock < SaturatingElapsedMs
           ELSE ShortElapsed + d <= MaxShortElapsedMs
        /\ refill_clock' = refill_clock + d
        /\ UNCHANGED <<refill_tokens, refill_last, refill_result, notRefill>>

\* try_consume(amount) on one thread: refill_if_needed, then the tokens are
\* taken if there are enough of them
RefillTryConsume ==
    \E amount \in RefillAmounts :
        LET r == RateLimiter_refill(refill_tokens, refill_last, refill_clock,
                                    overflow_checks)
            ok == r.kind = "Ok" /\ r.tokens >= amount
        IN  /\ refill_tokens' = IF ok THEN r.tokens - amount ELSE r.tokens
            /\ refill_last' = r.last
            /\ refill_result' =
                   [none |-> FALSE, kind |-> r.kind, before |-> refill_tokens,
                    elapsed |-> refill_clock - refill_last,
                    refilled |-> r.tokens, consumed |-> ok]
            /\ UNCHANGED <<refill_clock, notRefill>>

NextRefill ==
    \/ RefillAdvance
    \/ RefillTryConsume

\* ---- claims about the arithmetic of the refill

\* the tokens a refill after elapsed ms leaves when there were before:
\* min(before + elapsed * rate, capacity); the tokens of SaturatingElapsedMs
\* alone exceed the capacity
ExpectedRefill(before, elapsed) ==
    IF elapsed < MinRefillMs THEN before
    ELSE IF elapsed >= SaturatingElapsedMs THEN BandwidthCapacity
    ELSE Min(before + (elapsed * BandwidthRefillRate) \div 1000,
             BandwidthCapacity)

\* on one thread, whatever the elapsed time, refill_if_needed returns and
\* leaves min(current + credited, capacity) tokens (checked under SpecRefill)
RefillExactOnOneThread ==
    ~refill_result.none =>
        /\ refill_result.kind = "Ok"
        /\ refill_result.refilled =
               ExpectedRefill(refill_result.before, refill_result.elapsed)

\* the same for elapsed times below SaturatingElapsedMs
RefillExactWhenShort ==
    (~refill_result.none /\ refill_result.elapsed < SaturatingElapsedMs) =>
        /\ refill_result.kind = "Ok"
        /\ refill_result.refilled =
               ExpectedRefill(refill_result.before, refill_result.elapsed)

\* after a long idle time the refill panicked on current + new_tokens
RefillPanickedAfterIdle ==
    /\ ~refill_result.none
    /\ refill_result.kind = "Panic"

\* after a long idle time the refill took a token away
RefillLoweredTokens ==
    /\ ~refill_result.none
    /\ refill_result.kind = "Ok"
    /\ refill_result.refilled < refill_result.before

\* C40: refill_if_needed never overflows or underflows its integer
\* arithmetic under any interleaving: now - last_refill is never negative
\* when computed as u64, current_tokens + new_tokens never wraps 32 bits,
\* and the token count stays within [0, capacity] (checked under
\* SpecLimiter).
RefillNeverOverflows ==
    /\ \A t \in LimiterThreads :
           /\ limiter_call[t].pc # "panicked"
           /\ ~limiter_call[t].saturated
    /\ bucket_tokens \in 0..LimiterCapacity

\* a thread panicked on now - last_refill
RefillUnderflowPanicked ==
    \E t \in LimiterThreads : limiter_call[t].pc = "panicked"

\* in a build without overflow checks the wrapped sum was stored: the
\* refill took a token away
RefillSumWrapped ==
    \E t \in LimiterThreads :
        /\ limiter_call[t].pc = "store"
        /\ limiter_call[t].saturated
        /\ bucket_tokens = limiter_call[t].current - 1

\* ---- claims about the locks held across I/O, checked under SpecRunning

\* the write guard of the connection manager is held by a call of
\* establish_outbound_connection that waits for its dial or its handshake
WriteGuardHeldAcrossIo == cm_call # CallIdle

ListenerFreeWithoutDial ==
    (background["listener"] = "running" /\ cm_call = CallIdle)
        => ENABLED AcceptInbound

\* the listener has accepted a socket and waits for the write lock that
\* connect_to_peer holds while its dial is pending
ListenerWaitsForDial ==
    /\ background["listener"] = "running"
    /\ WriteGuardHeldAcrossIo
    /\ cm_call.pc = "dial"
    /\ ~ENABLED AcceptInbound

\* ------------------------------------------------------------------------
\* Specifications
\* ------------------------------------------------------------------------
\* in the specification of one component the others rest in a fixed state
RestCodec == InitCodec /\ ~overflow_checks
RestRecent == InitRecent /\ rm_capacity = MaxCapacity

RestService == InitSybil /\ InitService

RestBlock ==
    /\ InitBlock
    /\ compact_blocks_enabled
    /\ mempool_prevalence_threshold = PrevalenceEstimate

RestDos ==
    /\ InitDos
    /\ whitelist = {}

RestLife ==
    /\ InitLife
    /\ ~enable_upnp
    /\ ~metrics

RestNeg ==
    /\ InitNeg
    /\ local_capabilities.supported_protocols =
           [p \in NegProtocols |-> BaseVersion]
    /\ min_compatible_version = [p \in NegProtocols |-> BaseVersion]

RestBroadcast ==
    /\ InitBroadcast
    /\ default_policy = AllPeers
    /\ protocol_policies = EmptyMap

RestDiscovery ==
    /\ InitDiscovery
    /\ bootstrap_nodes = {}
    /\ dns_seeds = {}

RestGossip ==
    /\ InitGossip
    /\ gossip_factors = [fanout |-> 1, rounds |-> 0]
    /\ gossip_cache_size = 1
    /\ gossip_active_peers = GossipPeers

InitOfCodec ==
    /\ InitCodec
    /\ InitClock
    /\ RestRecent
    /\ InitTopo
    /\ InitConn
    /\ InitSybil
    /\ InitService
    /\ RestNeg
    /\ RestBlock
    /\ RestDos
    /\ InitTasks
    /\ RestLife
    /\ RestBroadcast
    /\ RestDiscovery
    /\ InitLimiter
    /\ InitHandshakes
    /\ InitRunning
    /\ InitBan
    /\ InitSubnet
    /\ RestGossip
    /\ InitSeen
    /\ InitRefill
InitOfRecent ==
    /\ RestCodec
    /\ InitClock
    /\ InitRecent
    /\ InitTopo
    /\ InitConn
    /\ InitSybil
    /\ InitService
    /\ RestNeg
    /\ RestBlock
    /\ RestDos
    /\ InitTasks
    /\ RestLife
    /\ RestBroadcast
    /\ RestDiscovery
    /\ InitLimiter
    /\ InitHandshakes
    /\ InitRunning
    /\ InitBan
    /\ InitSubnet
    /\ RestGossip
    /\ InitSeen
    /\ InitRefill
InitOfTopo ==
    /\ RestCodec
    /\ InitClock
    /\ RestRecent
    /\ InitTopo
    /\ InitConn
    /\ InitSybil
    /\ InitService
    /\ RestNeg
    /\ RestBlock
    /\ RestDos
    /\ InitTasks
    /\ RestLife
    /\ RestBroadcast
    /\ RestDiscovery
    /\ InitLimiter
    /\ InitHandshakes
    /\ InitRunning
    /\ InitBan
    /\ InitSubnet
    /\ RestGossip
    /\ InitSeen
    /\ InitRefill
InitOfConn ==
    /\ RestCodec
    /\ InitClock
    /\ RestRecent
    /\ InitTopo
    /\ InitConn
    /\ InitSybil
    /\ InitService
    /\ RestNeg
    /\ RestBlock
    /\ RestDos
    /\ InitTasks
    /\ RestLife
    /\ RestBroadcast
    /\ RestDiscovery
    /\ InitLimiter
    /\ InitHandshakes
    /\ InitRunning
    /\ InitBan
    /\ InitSubnet
    /\ RestGossip
    /\ InitSeen
    /\ InitRefill
InitOfService ==
    /\ RestCodec
    /\ InitClock
    /\ RestRecent
    /\ InitTopo
    /\ InitConn
    /\ InitSybil
    /\ InitService
    /\ RestNeg
    /\ RestBlock
    /\ RestDos
    /\ InitTasks
    /\ RestLife
    /\ RestBroadcast
    /\ RestDiscovery
    /\ InitLimiter
    /\ InitHandshakes
    /\ InitRunning
    /\ InitBan
    /\ InitSubnet
    /\ RestGossip
    /\ InitSeen
    /\ InitRefill
InitOfNeg ==
    /\ RestCodec
    /\ InitClock
    /\ RestRecent
    /\ InitTopo
    /\ InitConn
    /\ InitSybil
    /\ InitService
    /\ InitNeg
    /\ RestBlock
    /\ RestDos
    /\ InitTasks
    /\ RestLife
    /\ RestBroadcast
    /\ RestDiscovery
    /\ InitLimiter
    /\ InitHandshakes
    /\ InitRunning
    /\ InitBan
    /\ InitSubnet
    /\ RestGossip
    /\ InitSeen
    /\ InitRefill
InitOfBlock ==
    /\ RestCodec
    /\ InitClock
    /\ RestRecent
    /\ InitTopo
    /\ InitConn
    /\ InitSybil
    /\ InitService
    /\ RestNeg
    /\ InitBlock
    /\ RestDos
    /\ InitTasks
    /\ RestLife
    /\ RestBroadcast
    /\ RestDiscovery
    /\ InitLimiter
    /\ InitHandshakes
    /\ InitRunning
    /\ InitBan
    /\ InitSubnet
    /\ RestGossip
    /\ InitSeen
    /\ InitRefill
InitOfDos ==
    /\ RestCodec
    /\ InitClock
    /\ RestRecent
    /\ InitTopo
    /\ InitConn
    /\ InitSybil
    /\ InitService
    /\ RestNeg
    /\ RestBlock
    /\ InitDos
    /\ InitTasks
    /\ RestLife
    /\ RestBroadcast
    /\ RestDiscovery
    /\ InitLimiter
    /\ InitHandshakes
    /\ InitRunning
    /\ InitBan
    /\ InitSubnet
    /\ RestGossip
    /\ InitSeen
    /\ InitRefill
InitOfLife ==
    /\ RestCodec
    /\ InitClock
    /\ RestRecent
    /\ InitTopo
    /\ InitConn
    /\ InitSybil
    /\ InitService
    /\ RestNeg
    /\ RestBlock
    /\ RestDos
    /\ InitTasks
    /\ InitLife
    /\ RestBroadcast
    /\ RestDiscovery
    /\ InitLimiter
    /\ InitHandshakes
    /\ InitRunning
    /\ InitBan
    /\ InitSubnet
    /\ RestGossip
    /\ InitSeen
    /\ InitRefill
InitOfBroadcast ==
    /\ RestCodec
    /\ InitClock
    /\ RestRecent
    /\ InitTopo
    /\ InitConn
    /\ InitSybil
    /\ InitService
    /\ RestNeg
    /\ RestBlock
    /\ RestDos
    /\ InitTasks
    /\ RestLife
    /\ InitBroadcast
    /\ RestDiscovery
    /\ InitLimiter
    /\ InitHandshakes
    /\ InitRunning
    /\ InitBan
    /\ InitSubnet
    /\ RestGossip
    /\ InitSeen
    /\ InitRefill
InitOfDiscovery ==
    /\ RestCodec
    /\ InitClock
    /\ RestRecent
    /\ InitTopo
    /\ InitConn
    /\ InitSybil
    /\ InitService
    /\ RestNeg
    /\ RestBlock
    /\ RestDos
    /\ InitTasks
    /\ RestLife
    /\ RestBroadcast
    /\ InitDiscovery
    /\ InitLimiter
    /\ InitHandshakes
    /\ InitRunning
    /\ InitBan
    /\ InitSubnet
    /\ RestGossip
    /\ InitSeen
    /\ InitRefill
InitOfLimiter ==
    /\ InitCodec
    /\ InitClock
    /\ RestRecent
    /\ InitTopo
    /\ InitConn
    /\ InitSybil
    /\ InitService
    /\ RestNeg
    /\ RestBlock
    /\ RestDos
    /\ InitTasks
    /\ RestLife
    /\ RestBroadcast
    /\ RestDiscovery
    /\ InitLimiter
    /\ InitHandshakes
    /\ InitRunning
    /\ InitBan
    /\ InitSubnet
    /\ RestGossip
    /\ InitSeen
    /\ InitRefill
InitOfHandshake ==
    /\ RestCodec
    /\ InitClock
    /\ RestRecent
    /\ InitTopo
    /\ InitConn
    /\ InitSybil
    /\ InitService
    /\ RestNeg
    /\ RestBlock
    /\ RestDos
    /\ InitTasks
    /\ RestLife
    /\ RestBroadcast
    /\ RestDiscovery
    /\ InitLimiter
    /\ InitHandshakes
    /\ InitRunning
    /\ InitBan
    /\ InitSubnet
    /\ RestGossip
    /\ InitSeen
    /\ InitRefill
InitOfRunning ==
    /\ RestCodec
    /\ InitClock
    /\ RestRecent
    /\ InitTopo
    /\ InitConn
    /\ InitSybil
    /\ InitService
    /\ RestNeg
    /\ RestBlock
    /\ RestDos
    /\ InitTasks
    /\ InitLife
    /\ RestBroadcast
    /\ RestDiscovery
    /\ InitLimiter
    /\ InitHandshakes
    /\ InitRunning
    /\ InitBan
    /\ InitSubnet
    /\ RestGossip
    /\ InitSeen
    /\ InitRefill
InitOfBan ==
    /\ InitCodec
    /\ InitClock
    /\ RestRecent
    /\ InitTopo
    /\ InitConn
    /\ InitSybil
    /\ InitService
    /\ RestNeg
    /\ RestBlock
    /\ RestDos
    /\ InitTasks
    /\ RestLife
    /\ RestBroadcast
    /\ RestDiscovery
    /\ InitLimiter
    /\ InitHandshakes
    /\ InitRunning
    /\ InitBan
    /\ InitSubnet
    /\ RestGossip
    /\ InitSeen
    /\ InitRefill
InitOfSubnet ==
    /\ RestCodec
    /\ InitClock
    /\ RestRecent
    /\ InitTopo
    /\ InitConn
    /\ InitSybil
    /\ InitService
    /\ RestNeg
    /\ RestBlock
    /\ RestDos
    /\ InitTasks
    /\ RestLife
    /\ RestBroadcast
    /\ RestDiscovery
    /\ InitLimiter
    /\ InitHandshakes
    /\ InitRunning
    /\ InitBan
    /\ InitSubnet
    /\ RestGossip
    /\ InitSeen
    /\ InitRefill
InitOfGossip ==
    /\ RestCodec
    /\ InitClock
    /\ RestRecent
    /\ InitTopo
    /\ InitConn
    /\ InitSybil
    /\ InitService
    /\ RestNeg
    /\ RestBlock
    /\ RestDos
    /\ InitTasks
    /\ RestLife
    /\ RestBroadcast
    /\ RestDiscovery
    /\ InitLimiter
    /\ InitHandshakes
    /\ InitRunning
    /\ InitBan
    /\ InitSubnet
    /\ InitGossip
    /\ InitSeen
    /\ InitRefill
InitOfSeen ==
    /\ RestCodec
    /\ InitClock
    /\ RestRecent
    /\ InitTopo
    /\ InitConn
    /\ InitSybil
    /\ InitService
    /\ RestNeg
    /\ InitBlock
    /\ RestDos
    /\ InitTasks
    /\ RestLife
    /\ RestBroadcast
    /\ RestDiscovery
    /\ InitLimiter
    /\ InitHandshakes
    /\ InitRunning
    /\ InitBan
    /\ InitSubnet
    /\ RestGossip
    /\ InitSeen
    /\ InitRefill
InitOfRefill ==
    /\ InitCodec
    /\ InitClock
    /\ RestRecent
    /\ InitTopo
    /\ InitConn
    /\ InitSybil
    /\ InitService
    /\ RestNeg
    /\ RestBlock
    /\ RestDos
    /\ InitTasks
    /\ RestLife
    /\ RestBroadcast
    /\ RestDiscovery
    /\ InitLimiter
    /\ InitHandshakes
    /\ InitRunning
    /\ InitBan
    /\ InitSubnet
    /\ RestGossip
    /\ InitSeen
    /\ InitRefill

SpecCodec == InitOfCodec /\ [][NextCodec]_vars

SpecRecent == InitOfRecent /\ [][NextRecent]_vars

SpecTopo == InitOfTopo /\ [][NextTopo]_vars

SpecConn == InitOfConn /\ [][NextConn]_vars

SpecService == InitOfService /\ [][NextService]_vars

SpecNeg == InitOfNeg /\ [][NextNeg]_vars

SpecBlock == InitOfBlock /\ [][NextBlock]_vars

SpecDos == InitOfDos /\ [][NextDos]_vars

SpecLife == InitOfLife /\ [][NextLife]_vars

SpecBroadcast == InitOfBroadcast /\ [][NextBroadcast]_vars

SpecDiscovery == InitOfDiscovery /\ [][NextDiscovery]_vars

SpecLimiter == InitOfLimiter /\ [][NextLimiter]_vars

SpecHandshake == InitOfHandshake /\ [][NextHandshake]_vars

SpecRunning == InitOfRunning /\ [][NextRunning]_vars

SpecBan == InitOfBan /\ [][NextBan]_vars

SpecSubnet == InitOfSubnet /\ [][NextSubnet]_vars

SpecGossip == InitOfGossip /\ [][NextGossip]_vars

SpecSeen == InitOfSeen /\ [][NextSeen]_vars

SpecRefill == InitOfRefill /\ [][NextRefill]_vars

\* the calls of start and stop run on, and the runtime polls every spawned
\* task that is ready; a select! with a ready branch takes it in the end
StartSteps ==
    \/ StartBegin
    \/ StartListeners
    \/ StartNat
    \/ Bootstrap(StartCaller)
    \/ StorePeer(StartCaller)
    \/ CountPeers(StartCaller)
    \/ BootstrapReturn(StartCaller)
    \/ Admit(StartCaller)
    \/ ConnectBegin(StartCaller)
    \/ ConnectDial(StartCaller)
    \/ ConnectHandshake(StartCaller)
    \/ RecordConnection(StartCaller)
    \/ StoreConnection(StartCaller)
    \/ NotifyPeerDiscovered(StartCaller)
    \/ StartMaintenance
    \/ StartMessageHandler
    \/ StartHealthChecker
    \/ StartFinish

StopSteps ==
    \/ StopBegin
    \/ StopLock
    \/ StopRecord
    \/ StopUnlock
    \/ StopCollect
    \/ StopSend
    \/ StopFinish

FairLife ==
    /\ WF_vars(StartSteps)
    /\ WF_vars(StopSteps)
    /\ WF_vars(ListenerExit)
    /\ WF_vars(MaintenanceExit)
    /\ WF_vars(HandlerRecv \/ HandlerApply)
    /\ WF_vars(HandlerExit)

SpecLifeFair == InitOfLife /\ [][NextLife]_vars /\ FairLife

====
